---- MODULE Spec2Model ----
(***************************************************************************)
(* A model of the multi-bot Telegram dispatcher: the message router         *)
(* (core/message_router.py), the bot manager (core/bot_manager.py), the     *)
(* handler base class (bots/base_bot.py) and the two concrete handlers      *)
(* (bots/main_bot/main_bot.py, bots/poetry_bot/poetry_bot.py).              *)
(*                                                                         *)
(* Text is a sequence of Unicode code points, so that the regular           *)
(* expressions and the case folding of the router are computed, not         *)
(* assumed.                                                                 *)
(***************************************************************************)
EXTENDS Integers, Sequences, FiniteSets, TLC

VARIABLES
    bots,            \* BotManager.bots: the registry, in insertion order
    manager,         \* BaseBot.manager of every bot object (TRUE: this manager)
    is_initialized,  \* BaseBot.is_initialized of every bot object
    components,      \* TRUE once _initialize_bot has set the bot's collaborators
    is_running,      \* BotManager.is_running
    routed,          \* the last call of route_text_message: arguments and result
    pc,              \* where the update being processed stands
    upd,             \* the update being processed
    cur_bot,         \* the handler the dispatcher is calling (target_bot / main_bot)
    response,        \* the value the handler returned
    events,          \* what the processing of this update did, in order
    call_env,        \* what the collaborators did during the handler call
    bot_stats,       \* the rows of the bot_stats table
    init_runs,       \* how often _initialize_bot has run on every bot object
    shutdown_runs,   \* how often _shutdown_bot has run on every bot object
    last_call,       \* the last initialize() or shutdown() call made on a bot
    stats_before,    \* the bot_stats table as it was when the update arrived
    stats_calls,     \* the calls of Database.update_bot_stats and where they stand
    web,             \* the WebAutomation object and its create_suno_track call
    ai,              \* the AIService object and its last request
    main,            \* main.py: the environment it reads and how far it has run
    manager_call,    \* the last call of BotManager.start or BotManager.stop
    temp_dir,        \* the files in self.temp_dir of every bot object, as glob lists them
    voice_calls      \* the calls of MainBot.process_voice and where they stand

vars == <<bots, manager, is_initialized, components, is_running, routed,
          pc, upd, cur_bot, response, events, call_env, bot_stats,
                   init_runs, shutdown_runs, last_call, stats_before,
          stats_calls, web, ai, main, manager_call, temp_dir, voice_calls>>

\* the state of the services beside the manager, its bots and its dispatcher
service_vars == <<stats_calls, web, ai, main, manager_call, voice_calls>>

None == "None"

(***************************************************************************)
(* Bounds of the model.                                                     *)
(***************************************************************************)
\* the longest run of whitespace generated between the two words of an address
MaxGap == 2

\* how often one bot object is initialized at most
MaxInitRuns == 2

\* how many calls of update_bot_stats are made at most
MaxStatCalls == 3

\* how many calls of create_suno_track are made on one WebAutomation object
MaxSunoCalls == 2

\* how many requests one AIService object gets at most
MaxAIRequests == 3

\* the width of the str hash in bits (64 in CPython)
HashBits == 2

(***************************************************************************)
(* Characters and case folding.                                             *)
(***************************************************************************)
\* str.lower() / re.IGNORECASE on the letters the texts use: A-Z, А-Я, Ё
Lower(c) ==
    IF (c >= 65 /\ c <= 90) \/ (c >= 1040 /\ c <= 1071) THEN c + 32
    ELSE IF c = 1025 THEN 1105
    ELSE c

\* re.IGNORECASE dropped: characters are compared as they are
Fold_none(c) == c

\* re.IGNORECASE: two characters match when they are equal up to case
Fold(c) == Lower(c)

\* \s of a str pattern: Unicode whitespace
IsSpace(c) ==
    c \in {9, 10, 11, 12, 13, 28, 29, 30, 31, 32, 133, 160, 5760, 8232, 8233,
           8239, 8287, 12288} \/ (c >= 8192 /\ c <= 8202)

(***************************************************************************)
(* The regular expressions of the router, as sequences of items:            *)
(*   chr c   the character c (case-insensitive)                             *)
(*   opt c   c?                                                             *)
(*   set S   a character class [..]                                         *)
(*   sp+     \s+                                                            *)
(*   any+    .+ under re.DOTALL                                             *)
(***************************************************************************)
Chr(c) == [k |-> "chr", c |-> c, s |-> {}]
Opt(c) == [k |-> "opt", c |-> c, s |-> {}]
Set(S) == [k |-> "set", c |-> 0, s |-> S]
SpPlus == [k |-> "sp+", c |-> 0, s |-> {}]
AnyPlus == [k |-> "any+", c |-> 0, s |-> {}]
Lit(str) == [i \in 1..Len(str) |-> Chr(str[i])]

RECURSIVE MatchFrom(_, _, _, _)
\* does pat[i..] match text starting at position j (a prefix match, as re.match)
MatchFrom(pat, i, text, j) ==
    IF i > Len(pat) THEN TRUE
    ELSE LET it == pat[i]
             n == Len(text)
         IN  CASE it.k = "chr" ->
                    /\ j <= n
                    /\ Fold(text[j]) = Fold(it.c)
                    /\ MatchFrom(pat, i + 1, text, j + 1)
               [] it.k = "opt" ->
                    \/ /\ j <= n
                       /\ Fold(text[j]) = Fold(it.c)
                       /\ MatchFrom(pat, i + 1, text, j + 1)
                    \/ MatchFrom(pat, i + 1, text, j)
               [] it.k = "set" ->
                    /\ j <= n
                    /\ text[j] \in it.s
                    /\ MatchFrom(pat, i + 1, text, j + 1)
               [] it.k = "sp+" ->
                    \E m \in 1..(n - j + 1) :
                        /\ \A q \in j..(j + m - 1) : IsSpace(text[q])
                        /\ MatchFrom(pat, i + 1, text, j + m)
               [] it.k = "any+" ->
                    \E m \in 1..(n - j + 1) : MatchFrom(pat, i + 1, text, j + m)

\* pattern.match(text): anchored at the start of the text
re_match(pat, text) == MatchFrom(pat, 1, text, 1)

\* re.search(pattern, text, re.IGNORECASE): anywhere in the text
re_search(pat, text) == \E start \in 1..(Len(text) + 1) : MatchFrom(pat, 1, text, start)

(***************************************************************************)
(* MessageRouter.__init__                                                   *)
(***************************************************************************)
\* "главный", "бот", "поэт"
W_glavnyi == <<1075, 1083, 1072, 1074, 1085, 1099, 1081>>
W_bot == <<1073, 1086, 1090>>
W_poet == <<1087, 1086, 1101, 1090>>

\* r"стих", r"поэм", r"рифм", r"строф", r"сочини", r"напиши стих",
\* r"музык", r"песн", r"трек", r"мелоди", r"suno"
poetry_keywords == <<
    <<1089, 1090, 1080, 1093>>,
    <<1087, 1086, 1101, 1084>>,
    <<1088, 1080, 1092, 1084>>,
    <<1089, 1090, 1088, 1086, 1092>>,
    <<1089, 1086, 1095, 1080, 1085, 1080>>,
    <<1085, 1072, 1087, 1080, 1096, 1080, 32, 1089, 1090, 1080, 1093>>,
    <<1084, 1091, 1079, 1099, 1082>>,
    <<1087, 1077, 1089, 1085>>,
    <<1090, 1088, 1077, 1082>>,
    <<1084, 1077, 1083, 1086, 1076, 1080>>,
    <<115, 117, 110, 111>> >>

\* each keyword is a pattern of literal characters
keyword_patterns == [i \in 1..Len(poetry_keywords) |-> Lit(poetry_keywords[i])]

\* r"^@?главный\s+бот[,:].+" and r"^@?поэт[,:].+", re.IGNORECASE | re.DOTALL,
\* in the order of the dict literal
direct_patterns == <<
    [name |-> "main_bot",
     pattern |-> <<Opt(64)>> \o Lit(W_glavnyi) \o <<SpPlus>> \o Lit(W_bot)
                 \o <<Set({44, 58}), AnyPlus>>],
    [name |-> "poetry_bot",
     pattern |-> <<Opt(64)>> \o Lit(W_poet) \o <<Set({44, 58}), AnyPlus>>] >>

(***************************************************************************)
(* The bot objects. main.py builds MainBot("main_bot") and                  *)
(* PoetryBot("poetry_bot"); BaseBot lets any other subclass be registered   *)
(* under any name.                                                          *)
(***************************************************************************)
BotIds == {"main", "poetry", "main2", "aux"}

ClassOf == [b \in BotIds |->
              CASE b = "main" -> "MainBot"
                [] b = "poetry" -> "PoetryBot"
                [] OTHER -> "BaseBot"]

NameOf == [b \in BotIds |->
             CASE b = "main" -> "main_bot"
               [] b = "poetry" -> "poetry_bot"
               [] b = "main2" -> "main_bot"
               [] b = "aux" -> "aux_bot"]

BotNames == {NameOf[b] : b \in BotIds}

\* `name in bots`
HasBot(reg, name) == \E i \in 1..Len(reg) : NameOf[reg[i]] = name

\* bots[name], for a name in the registry
BotAt(reg, name) == reg[CHOOSE i \in 1..Len(reg) : NameOf[reg[i]] = name]

\* BotManager.get_bot: self.bots.get(name)
get_bot(reg, name) == IF HasBot(reg, name) THEN BotAt(reg, name) ELSE None

(***************************************************************************)
(* MessageRouter.route_text_message. The result carries, beside the bot,    *)
(* the branch that returned it (the branch's log line).                     *)
(***************************************************************************)
RECURSIVE DirectFrom(_, _, _)
\* the loop over direct_patterns.items(), from the i-th entry on: the name of
\* the first entry whose pattern matches and whose name is registered
DirectFrom(text, reg, i) ==
    IF i > Len(direct_patterns) THEN None
    ELSE IF re_match(direct_patterns[i].pattern, text)
            /\ HasBot(reg, direct_patterns[i].name)
         THEN direct_patterns[i].name
         ELSE DirectFrom(text, reg, i + 1)

\* a plausible slip: re.match in the place of re.search
HasPoetryKeyword_match(text) ==
    \E i \in 1..Len(keyword_patterns) : re_match(keyword_patterns[i], text)

\* any(re.search(keyword, text, re.IGNORECASE) for keyword in poetry_keywords)
HasPoetryKeyword(text) ==
    \E i \in 1..Len(keyword_patterns) : re_search(keyword_patterns[i], text)

\* a plausible slip: the keyword rule tried before the direct-address rule
route_keywords_first(text, reg) ==
    IF HasPoetryKeyword(text) /\ HasBot(reg, "poetry_bot")
        THEN [bot |-> BotAt(reg, "poetry_bot"), rule |-> "keyword"]
    ELSE IF DirectFrom(text, reg, 1) # None
        THEN [bot |-> BotAt(reg, DirectFrom(text, reg, 1)), rule |-> "direct"]
    ELSE IF HasBot(reg, "main_bot")
        THEN [bot |-> BotAt(reg, "main_bot"), rule |-> "default"]
    ELSE IF Len(reg) > 0
        THEN [bot |-> reg[1], rule |-> "fallback"]
    ELSE [bot |-> None, rule |-> "none"]

\* a plausible slip: the keyword rule ignores whether poetry_bot is registered
\* and the default rule is skipped for a keyword text
route_keyword_unguarded(text, reg) ==
    IF DirectFrom(text, reg, 1) # None
        THEN [bot |-> BotAt(reg, DirectFrom(text, reg, 1)), rule |-> "direct"]
    ELSE IF HasPoetryKeyword(text)
        THEN [bot |-> get_bot(reg, "poetry_bot"), rule |-> "keyword"]
    ELSE IF HasBot(reg, "main_bot")
        THEN [bot |-> BotAt(reg, "main_bot"), rule |-> "default"]
    ELSE IF Len(reg) > 0
        THEN [bot |-> reg[1], rule |-> "fallback"]
    ELSE [bot |-> None, rule |-> "none"]

\* a plausible slip: the fallback takes the last registered bot
route_fallback_last(text, reg) ==
    IF DirectFrom(text, reg, 1) # None
        THEN [bot |-> BotAt(reg, DirectFrom(text, reg, 1)), rule |-> "direct"]
    ELSE IF HasPoetryKeyword(text) /\ HasBot(reg, "poetry_bot")
        THEN [bot |-> BotAt(reg, "poetry_bot"), rule |-> "keyword"]
    ELSE IF HasBot(reg, "main_bot")
        THEN [bot |-> BotAt(reg, "main_bot"), rule |-> "default"]
    ELSE IF Len(reg) > 0
        THEN [bot |-> reg[Len(reg)], rule |-> "fallback"]
    ELSE [bot |-> None, rule |-> "none"]

\* a routing bug: without main_bot the router gives up, the first registered
\* bot is not taken
route_no_fallback(text, reg) ==
    IF DirectFrom(text, reg, 1) # None
        THEN [bot |-> BotAt(reg, DirectFrom(text, reg, 1)), rule |-> "direct"]
    ELSE IF HasPoetryKeyword(text) /\ HasBot(reg, "poetry_bot")
        THEN [bot |-> BotAt(reg, "poetry_bot"), rule |-> "keyword"]
    ELSE IF HasBot(reg, "main_bot")
        THEN [bot |-> BotAt(reg, "main_bot"), rule |-> "default"]
    ELSE [bot |-> None, rule |-> "none"]

\* a plausible slip: the first registered bot is taken before main_bot is looked up
route_first_before_default(text, reg) ==
    IF DirectFrom(text, reg, 1) # None
        THEN [bot |-> BotAt(reg, DirectFrom(text, reg, 1)), rule |-> "direct"]
    ELSE IF HasPoetryKeyword(text) /\ HasBot(reg, "poetry_bot")
        THEN [bot |-> BotAt(reg, "poetry_bot"), rule |-> "keyword"]
    ELSE IF Len(reg) > 0
        THEN [bot |-> reg[1], rule |-> "fallback"]
    ELSE IF HasBot(reg, "main_bot")
        THEN [bot |-> BotAt(reg, "main_bot"), rule |-> "default"]
    ELSE [bot |-> None, rule |-> "none"]

route_text_message(text, reg) ==
    IF DirectFrom(text, reg, 1) # None
        THEN [bot |-> BotAt(reg, DirectFrom(text, reg, 1)), rule |-> "direct"]
    ELSE IF HasPoetryKeyword(text) /\ HasBot(reg, "poetry_bot")
        THEN [bot |-> BotAt(reg, "poetry_bot"), rule |-> "keyword"]
    ELSE IF HasBot(reg, "main_bot")
        THEN [bot |-> BotAt(reg, "main_bot"), rule |-> "default"]
    ELSE IF Len(reg) > 0
        THEN [bot |-> reg[1], rule |-> "fallback"]
    ELSE [bot |-> None, rule |-> "none"]

(***************************************************************************)
(* The texts of the model.                                                  *)
(***************************************************************************)
\* "Poet: write about the sea"
T_PoetSea == <<80, 111, 101, 116, 58, 32, 119, 114, 105, 116, 101, 32, 97, 98,
               111, 117, 116, 32, 116, 104, 101, 32, 115, 101, 97>>
\* "Поэт: write about the sea"
T_PoetSeaRu == <<1055, 1086, 1101, 1090, 58, 32, 119, 114, 105, 116, 101, 32, 97,
                 98, 111, 117, 116, 32, 116, 104, 101, 32, 115, 101, 97>>
\* "I'd like a song about rain"
T_SongRain == <<73, 39, 100, 32, 108, 105, 107, 101, 32, 97, 32, 115, 111, 110,
                103, 32, 97, 98, 111, 117, 116, 32, 114, 97, 105, 110>>
\* "Хочу песню про дождь"
T_SongRainRu == <<1061, 1086, 1095, 1091, 32, 1087, 1077, 1089, 1085, 1102, 32,
                  1087, 1088, 1086, 32, 1076, 1086, 1078, 1076, 1100>>
\* "What time is it?"
T_WhatTime == <<87, 104, 97, 116, 32, 116, 105, 109, 101, 32, 105, 115, 32, 105,
                116, 63>>
\* "главный бот: Стих"
T_MainVerse == <<1075, 1083, 1072, 1074, 1085, 1099, 1081, 32, 1073, 1086, 1090,
                 58, 32, 1057, 1090, 1080, 1093>>

ScenarioTexts == {T_PoetSea, T_PoetSeaRu, T_SongRain, T_SongRainRu, T_WhatTime,
                  T_MainVerse}

\* str.upper() on the letters the texts use
Upper(c) ==
    IF (c >= 97 /\ c <= 122) \/ (c >= 1072 /\ c <= 1103) THEN c - 32 ELSE c
UpperStr(str) == [i \in 1..Len(str) |-> Upper(str[i])]

\* g whitespace characters: spaces, the second one a tab
Gap(g) == [i \in 1..g |-> IF i = 2 THEN 9 ELSE 32]

\* what a text starts with: nothing, "@", " "
Heads == {<<>>, <<64>>, <<32>>}
\* the address: none, "главный<gap>бот", "ГЛАВНЫЙ БОТ", "поэт", "ПОЭТ", "Poet"
Addresses ==
    {<<>>, UpperStr(W_glavnyi) \o <<32>> \o UpperStr(W_bot), W_poet,
     UpperStr(W_poet), <<80, 111, 101, 116>>}
    \cup {W_glavnyi \o Gap(g) \o W_bot : g \in 0..MaxGap}
\* the separator: none, ":", ","
Seps == {<<>>, <<58>>, <<44>>}
\* the rest: nothing, "x", a newline, " Стих", "SUNO"
Tails == {<<>>, <<120>>, <<10>>, <<32, 1057, 1090, 1080, 1093>>, <<83, 85, 78, 79>>}

Texts ==
    ScenarioTexts
    \cup {h \o a \o s \o t : h \in Heads, a \in Addresses, s \in Seps, t \in Tails}

(***************************************************************************)
(* Replies. A handler call either raises or returns a value: a str, a dict  *)
(* (with or without 'voice_path'), None, or (a BaseBot subclass may return  *)
(* anything) a value of another type.                                       *)
(***************************************************************************)
Str(body, text) == [raised |-> FALSE, type |-> "str", body |-> body, text |-> text]
Dict(body, text) == [raised |-> FALSE, type |-> "dict", body |-> body, text |-> text]
NoneValue == [raised |-> FALSE, type |-> "none", body |-> "", text |-> ""]
OtherValue == [raised |-> FALSE, type |-> "other", body |-> "", text |-> ""]
Raised == [raised |-> TRUE, type |-> "none", body |-> "", text |-> ""]

\* a dispatcher bug: `if response is not None:` in place of `if response:`
Truthy_not_none(v) == v.type # "none"

\* `if response:`; a str is true when it is not empty, a dict when it has a key
Truthy(v) == v.type \in {"str", "dict", "other"} /\ v.body # ""

\* The fixed texts of the handlers and of the dispatcher
MAIN_TEXT_APOLOGY == "main_bot.py:93 error processing your message"
VOICE_NOT_RECOGNIZED == "main_bot.py:116 could not recognize the voice message"
VOICE_FALLBACK == "main_bot.py:130 transcript + answer + (could not create the voice message)"
MAIN_VOICE_APOLOGY == "main_bot.py:134 error processing your voice message"
POEM_WITH_TRACK == "poetry_bot.py:106 poem + track link"
POEM_WITHOUT_TRACK == "poetry_bot.py:108 poem + could not create the track"
POEM_ONLY == "poetry_bot.py:112 poem"
POETRY_APOLOGY == "poetry_bot.py:116 error creating the poem"
NO_BOT_APOLOGY == "bot_manager.py:134 cannot process your message"
VOICE_NOTICE == "bot_manager.py:146 processing the voice message"
VOICE_ERROR == "bot_manager.py:163 error processing the voice message"
VOICE_UNAVAILABLE == "bot_manager.py:167 voice processing temporarily unavailable"
GENERIC_APOLOGY == "bot_manager.py:175 error processing your request"
VOICE_PATH == "voice_path"

FixedApologies == {MAIN_TEXT_APOLOGY, VOICE_NOT_RECOGNIZED, MAIN_VOICE_APOLOGY,
                   POETRY_APOLOGY}

(***************************************************************************)
(* What the collaborators of a handler do during one call: the environment  *)
(* the call runs in.                                                        *)
(***************************************************************************)
Envs == [download : {"ok", "raise"},    \* voice_file.download_to_drive
         stt : {"text", "empty"},       \* VoiceHandler.speech_to_text
         ai : {"answer", "failed"},     \* the AI provider behind AIService
         tts : {TRUE, FALSE},           \* TTSGenerator.text_to_speech
         notify : {"ok", "raise"},      \* context.bot.send_message
         poem : {"poem", "apology", "failed"},  \* PoetryGenerator.generate_poem
         track : {"url", "none"},       \* WebAutomation.create_suno_track
         api_key : {TRUE, FALSE},       \* SUNO_API_KEY
         api : {"url", "error", "never"}, \* the POST to the Suno API
         custom : {"str", "empty", "dict", "voice", "none", "other", "raise"}]
                                        \* what a further BaseBot subclass does

\* the environment with nothing failing
CalmEnv == [download |-> "ok", stt |-> "text", ai |-> "answer", tts |-> TRUE,
            notify |-> "ok", poem |-> "poem", track |-> "url", api_key |-> TRUE,
            api |-> "url", custom |-> "str"]

\* the environments that differ where a call looks: a step the call does not
\* come to stays as it is in CalmEnv
EnvsOf(cls, kind, music) ==
    CASE cls = "MainBot" /\ kind = "text" ->
            {[CalmEnv EXCEPT !.ai = a] : a \in {"answer", "failed"}}
      [] cls = "MainBot" /\ kind = "voice" ->
            {[CalmEnv EXCEPT !.download = "raise"], [CalmEnv EXCEPT !.stt = "empty"]}
            \cup {[CalmEnv EXCEPT !.ai = a, !.tts = v] :
                    a \in {"answer", "failed"}, v \in BOOLEAN}
      [] cls = "PoetryBot" /\ ~music ->
            {[CalmEnv EXCEPT !.poem = q] : q \in {"poem", "apology", "failed"}}
      [] cls = "PoetryBot" /\ music ->
            {[CalmEnv EXCEPT !.notify = "raise"]}
            \cup {[CalmEnv EXCEPT !.poem = q] : q \in {"poem", "apology", "failed"}}
            \cup {[CalmEnv EXCEPT !.poem = q, !.track = "none", !.api_key = k, !.api = a] :
                    q \in {"poem", "apology", "failed"},
                    k \in BOOLEAN, a \in {"url", "error"}}
            \cup {[CalmEnv EXCEPT !.track = "none", !.api = "never"]}
      [] OTHER ->
            {[CalmEnv EXCEPT !.custom = c] :
                c \in {"str", "empty", "dict", "voice", "none", "other", "raise"}}

AI_APOLOGY == "ai_service.py:212 problems connecting to the AI service"
AI_CREATIVE_APOLOGY == "ai_service.py:246 problems connecting to the AI service"
POEM_FAILURE == "poetry_generator.py:73 could not create the poem"
MOCK_TRACK_URL == "https://suno.ai/examples"

get_text_response(env) ==
    IF env.ai = "answer" THEN "ai answer" ELSE AI_APOLOGY

\* PoetryGenerator.generate_poem: the poem, the apology the AI service
\* returned in its place, or the text the generator returns when it fails
generate_poem(env) ==
    CASE env.poem = "poem" -> "poem"
      [] env.poem = "apology" -> AI_CREATIVE_APOLOGY
      [] OTHER -> POEM_FAILURE

\* SunoIntegration.create_track: the web interface first, then the API,
\* and the mock URL when the API is not available or fails
create_track(env) ==
    IF env.track = "url" THEN "track url"
    ELSE IF ~env.api_key THEN MOCK_TRACK_URL
    ELSE IF env.api = "url" THEN "api track url"
    ELSE MOCK_TRACK_URL

\* str.lower()
LowerStr(str) == [i \in 1..Len(str) |-> Lower(str[i])]

\* `sub in text`
Contains(sub, text) ==
    \E start \in 1..(Len(text) - Len(sub) + 1) :
        \A i \in 1..Len(sub) : text[start + i - 1] = sub[i]

\* ["музык", "песн", "трек", "мелоди", "suno"]
music_keywords == {poetry_keywords[i] : i \in 7..11}

\* any(keyword in text.lower() for keyword in [...]) of PoetryBot.process_text
WantsMusic(text) == \E kw \in music_keywords : Contains(kw, LowerStr(text))

(***************************************************************************)
(* The handlers.                                                            *)
(***************************************************************************)
\* MainBot.process_text; without its collaborators (ai_service is None) the
\* call inside the try block raises and the except clause answers
MainBot_process_text(comp, env) ==
    IF ~comp THEN Str(MAIN_TEXT_APOLOGY, "")
    ELSE Str(get_text_response(env), "")

\* a handler bug: the download is made before the try block is entered
MainBot_process_voice_unguarded(comp, env) ==
    IF env.download = "raise" THEN Raised
    ELSE IF ~comp THEN Str(MAIN_VOICE_APOLOGY, "")
    ELSE IF env.stt = "empty" THEN Str(VOICE_NOT_RECOGNIZED, "")
    ELSE IF env.tts THEN Dict(VOICE_PATH, get_text_response(env))
    ELSE Str(VOICE_FALLBACK, get_text_response(env))

\* a handler bug: the result of text_to_speech is not looked at
MainBot_process_voice_ignores_tts(comp, env) ==
    IF env.download = "raise" \/ ~comp THEN Str(MAIN_VOICE_APOLOGY, "")
    ELSE IF env.stt = "empty" THEN Str(VOICE_NOT_RECOGNIZED, "")
    ELSE Dict(VOICE_PATH, get_text_response(env))

\* MainBot.process_voice
MainBot_process_voice(comp, env) ==
    IF env.download = "raise" \/ ~comp THEN Str(MAIN_VOICE_APOLOGY, "")
    ELSE IF env.stt = "empty" THEN Str(VOICE_NOT_RECOGNIZED, "")
    ELSE IF env.tts THEN Dict(VOICE_PATH, get_text_response(env))
    ELSE Str(VOICE_FALLBACK, get_text_response(env))

\* PoetryBot.process_text
PoetryBot_process_text(comp, text, env) ==
    IF WantsMusic(text)
    THEN IF env.notify = "raise" \/ ~comp THEN Str(POETRY_APOLOGY, "")
         ELSE IF create_track(env) # "" /\ create_track(env) # None
              THEN Str(POEM_WITH_TRACK, generate_poem(env))
              ELSE Str(POEM_WITHOUT_TRACK, generate_poem(env))
    ELSE IF ~comp THEN Str(POETRY_APOLOGY, "")
         ELSE Str(POEM_ONLY, generate_poem(env))

\* BaseBot.process_text is abstract: a further subclass returns a text, an
\* empty text or None, or raises
BaseBot_process_text(env) ==
    CASE env.custom = "raise" -> Raised
      [] env.custom = "none" -> NoneValue
      [] env.custom = "empty" -> Str("", "")
      [] OTHER -> Str("custom reply", "")

\* BaseBot.process_voice is abstract: a further subclass returns a text, a
\* dict with or without 'voice_path', None or another value, or raises
BaseBot_process_voice(env) ==
    CASE env.custom = "raise" -> Raised
      [] env.custom = "none" -> NoneValue
      [] env.custom = "other" -> OtherValue
      [] env.custom = "dict" -> Dict("text", "")
      [] env.custom = "voice" -> Dict(VOICE_PATH, "")
      [] env.custom = "empty" -> Str("", "")
      [] OTHER -> Str("custom reply", "")

\* suno_integration.py line 112: requests.post is called without a timeout,
\* so the call of process_text does not return when the server accepts the
\* request and never answers
NeverReturns(b, comp, text, env) ==
    /\ ClassOf[b] = "PoetryBot" /\ WantsMusic(text)
    /\ comp /\ env.notify = "ok"
    /\ env.track = "none" /\ env.api_key /\ env.api = "never"

\* target_bot.process_text(user_id, message_text, context)
process_text(b, comp, text, env) ==
    CASE ClassOf[b] = "MainBot" -> MainBot_process_text(comp, env)
      [] ClassOf[b] = "PoetryBot" -> PoetryBot_process_text(comp, text, env)
      [] OTHER -> BaseBot_process_text(env)

POETRY_CANNOT_VOICE == "poetry_bot.py:136 cannot process voice messages"

\* a handler bug: the voice message is refused although a main_bot is there
PoetryBot_process_voice_refuses(has_manager, comps, reg, env) ==
    Str(POETRY_CANNOT_VOICE, "")

\* PoetryBot.process_voice hands the call to the main_bot its manager has
\* registered, or answers that it cannot process voice messages
PoetryBot_process_voice(has_manager, comps, reg, env) ==
    IF has_manager /\ get_bot(reg, "main_bot") # None
    THEN IF ClassOf[get_bot(reg, "main_bot")] = "MainBot"
         THEN MainBot_process_voice(comps[get_bot(reg, "main_bot")], env)
         ELSE BaseBot_process_voice(env)
    ELSE Str(POETRY_CANNOT_VOICE, "")

\* main_bot.process_voice(user_id, voice_file, context)
process_voice(b, comps, reg, mgr, env) ==
    CASE ClassOf[b] = "MainBot" -> MainBot_process_voice(comps[b], env)
      [] ClassOf[b] = "PoetryBot" ->
            PoetryBot_process_voice(mgr[b], comps, reg, env)
      [] OTHER -> BaseBot_process_voice(env)

(***************************************************************************)
(* The state after construction: BotManager.__init__, BaseBot.__init__.     *)
(***************************************************************************)
NoUpdate == [kind |-> "none", text |-> <<>>]
NoCall == [op |-> "none", bot |-> None, warned |-> FALSE, ran |-> FALSE]
NotRouted == [called |-> FALSE, text |-> <<>>, reg |-> <<>>, bot |-> None,
              rule |-> "none"]

\* the callers of Database.update_bot_stats, and a caller that is in no call
Callers == {1, 2}
StatNames == {"main_bot", "poetry_bot"}
NoStatsCall == [pc |-> "idle", bot_name |-> None, success |-> FALSE,
                bot_exists |-> FALSE, returned |-> [n \in StatNames |-> 0],
                errors |-> 0]

\* WebAutomation.__init__: no browser yet, no page, no call
NewWebAutomation(available) ==
    [playwright_available |-> available, browser |-> FALSE, pages |-> 0,
     pc |-> "idle", budget |-> 0, max_retries |-> 0, attempts |-> <<>>,
     result |-> None, calls |-> 0]

\* the texts sent to the AI service
AITexts == {"privet", "stih pro more", "pesnya pro dozhd"}

\* a str hash under which no two of the texts collide
DistinctHash ==
    [t \in AITexts |->
        CASE t = "privet" -> 0 [] t = "stih pro more" -> 1 [] OTHER -> 2]

NoRequest == [kind |-> "none", text |-> None]
NoResponse == [by |-> "none", for |-> None]

\* AIService.__init__ with _initialize_models: the key read from the
\* environment, the local model when one was loaded, an empty cache
\* (the creative model is the text model); `hash` is the str hash of the
\* interpreter the service runs in
NewAIService(key, model, str_hash) ==
    [openai_api_key |-> key, text_model |-> (~key /\ model),
     response_cache |-> {}, hash |-> str_hash,
     request |-> NoRequest, response |-> NoResponse, hit |-> FALSE,
     requests |-> 0]

\* a caller of MainBot.process_voice that is in no call
NoVoiceCall == [pc |-> "idle", user_id |-> 0, file_unique_id |-> None,
                steps |-> <<>>, text |-> None, response_text |-> None,
                result |-> NoneValue]

\* BotManager.__init__: neither start() nor stop() has been called
NoManagerCall == [op |-> "none", warned |-> FALSE, raised |-> FALSE]

\* main.py after main() has built the manager: the token was found
MainStarted == [TELEGRAM_TOKEN |-> TRUE, pc |-> "manager", cause |-> None]

InitManager ==
    /\ bots = <<>>
    /\ manager = [b \in BotIds |-> FALSE]
    /\ is_initialized = [b \in BotIds |-> FALSE]
    /\ components = [b \in BotIds |-> FALSE]
    /\ is_running = FALSE
    /\ routed = NotRouted
    /\ pc = "idle"
    /\ upd = NoUpdate
    /\ cur_bot = None
    /\ response = NoneValue
    /\ events = <<>>
    /\ call_env = CalmEnv
    /\ bot_stats = <<>>
    /\ init_runs = [b \in BotIds |-> 0]
    /\ shutdown_runs = [b \in BotIds |-> 0]
    /\ last_call = NoCall
    /\ stats_before = <<>>
    /\ temp_dir = [b \in BotIds |-> <<>>]
    /\ voice_calls = [c \in Callers |-> NoVoiceCall]

Init ==
    /\ InitManager
    /\ stats_calls = [c \in Callers |-> NoStatsCall]
    /\ web = NewWebAutomation(TRUE)
    /\ ai = NewAIService(TRUE, FALSE, DistinctHash)
    /\ main = MainStarted
    /\ manager_call = NoManagerCall

\* one thing the processing of an update did: a handler call, a message sent
\* through the transport (ok: the transport accepted it), a deletion
Ev(op, bot, msg, ok) == [op |-> op, bot |-> bot, msg |-> msg, ok |-> ok]

(***************************************************************************)
(* BotManager.register_bot, with BaseBot.set_manager: an existing key keeps *)
(* its place in the dict and gets the new bot.                              *)
(***************************************************************************)
\* a registry bug: a second bot of the same name is added beside the first
register_bot_appends(b) ==
    /\ pc = "idle"
    /\ bots' = Append(bots, b)
    /\ manager' = [manager EXCEPT ![b] = TRUE]
    /\ UNCHANGED <<is_initialized, components, is_running, routed, pc, upd,
                   cur_bot, response, events, call_env, bot_stats,
                   init_runs, shutdown_runs, last_call, stats_before, service_vars,
                   temp_dir>>

register_bot(b) ==
    /\ pc = "idle"
    /\ bots' = IF HasBot(bots, NameOf[b])
               THEN [i \in 1..Len(bots) |->
                        IF NameOf[bots[i]] = NameOf[b] THEN b ELSE bots[i]]
               ELSE Append(bots, b)
    /\ manager' = [manager EXCEPT ![b] = TRUE]
    /\ UNCHANGED <<is_initialized, components, is_running, routed, pc, upd,
                   cur_bot, response, events, call_env, bot_stats,
                   init_runs, shutdown_runs, last_call, stats_before, service_vars,
                   temp_dir>>

(***************************************************************************)
(* A call of MessageRouter.route_text_message on the registry as it stands. *)
(***************************************************************************)
RouteCall(text) ==
    /\ pc = "idle"
    /\ ~routed.called
    /\ routed' = [called |-> TRUE, text |-> text, reg |-> bots,
                  bot |-> route_text_message(text, bots).bot,
                  rule |-> route_text_message(text, bots).rule]
    /\ UNCHANGED <<bots, manager, is_initialized, components, is_running, pc,
                   upd, cur_bot, response, events, call_env, bot_stats,
                   init_runs, shutdown_runs, last_call, stats_before, service_vars,
                   temp_dir>>

\* the router alone, on every registry register_bot can build
NextRoute ==
    \/ \E b \in BotIds : ~routed.called /\ register_bot(b)
    \/ \E text \in Texts : RouteCall(text)

SpecRoute == Init /\ [][NextRoute]_vars

(***************************************************************************)
(* Properties of the router.                                                *)
(***************************************************************************)
PatternOf(name) ==
    direct_patterns[CHOOSE i \in 1..Len(direct_patterns) :
                        direct_patterns[i].name = name].pattern

\* the text matches the direct-address pattern of the handler called name
MatchesDirect(name, text) == re_match(PatternOf(name), text)

MatchesNoDirect(text) ==
    \A i \in 1..Len(direct_patterns) : ~re_match(direct_patterns[i].pattern, text)

\* the default rule and the fallback rule, as the specification states them
DefaultOrFallback(reg) ==
    IF HasBot(reg, "main_bot") THEN BotAt(reg, "main_bot")
    ELSE IF Len(reg) > 0 THEN reg[1]
    ELSE None

Range(f) == {f[i] : i \in DOMAIN f}

\* the registries that hold the same bots as reg, in any insertion order
SameContents(reg) ==
    {r \in [1..Len(reg) -> Range(reg)] : Range(r) = Range(reg)}

\* C1: a text that matches the direct-address pattern of a registered handler
\* H (main_bot or poetry_bot) is routed to H, whatever keywords it contains
\* and whatever else is registered.
C1_DirectAddressWins ==
    routed.called =>
        \A h \in {"main_bot", "poetry_bot"} :
            (MatchesDirect(h, routed.text) /\ HasBot(routed.reg, h))
                => routed.bot = BotAt(routed.reg, h)

\* C1 happens: a text addressed to main_bot that also holds a keyword, with
\* poetry_bot registered too, went to main_bot.
C1_Witness ==
    /\ routed.called
    /\ MatchesDirect("main_bot", routed.text)
    /\ HasPoetryKeyword(routed.text)
    /\ HasBot(routed.reg, "main_bot")
    /\ HasBot(routed.reg, "poetry_bot")
    /\ routed.bot = BotAt(routed.reg, "main_bot")

\* C2: a text that holds a creative keyword and matches no direct-address
\* pattern is routed to poetry_bot when it is registered, and otherwise by the
\* default rule (main_bot if registered, else the first registered handler).
C2_KeywordRule ==
    (routed.called /\ HasPoetryKeyword(routed.text) /\ MatchesNoDirect(routed.text))
        => IF HasBot(routed.reg, "poetry_bot")
           THEN routed.bot = BotAt(routed.reg, "poetry_bot") /\ routed.rule = "keyword"
           ELSE routed.bot = DefaultOrFallback(routed.reg)

\* C2 happens: a keyword text went to a registered poetry_bot although main_bot
\* was registered before it.
C2_Witness ==
    /\ routed.called
    /\ HasPoetryKeyword(routed.text)
    /\ MatchesNoDirect(routed.text)
    /\ Len(routed.reg) >= 2
    /\ NameOf[routed.reg[1]] = "main_bot"
    /\ HasBot(routed.reg, "poetry_bot")
    /\ routed.bot = BotAt(routed.reg, "poetry_bot")

\* C3: a text that matches neither a direct-address pattern nor a keyword is
\* routed to main_bot if it is registered and else to the first registered
\* handler; the router returns None only when the registry is empty.
C3_DefaultAndFallback ==
    routed.called =>
        /\ (~HasPoetryKeyword(routed.text) /\ MatchesNoDirect(routed.text))
              => routed.bot = DefaultOrFallback(routed.reg)
        /\ (routed.bot = None) <=> (Len(routed.reg) = 0)

\* C3 happens: without main_bot, a plain text went to the first of two
\* registered handlers.
C3_Witness ==
    /\ routed.called
    /\ ~HasPoetryKeyword(routed.text)
    /\ MatchesNoDirect(routed.text)
    /\ ~HasBot(routed.reg, "main_bot")
    /\ Len(routed.reg) = 2
    /\ routed.bot = routed.reg[1]
    /\ routed.rule = "fallback"

\* C4 as stated: "Poet: write about the sea" goes to the poetry handler by the
\* direct-address rule whenever the poetry handler is registered.
C4_AsStated ==
    (routed.called /\ routed.text = T_PoetSea /\ HasBot(routed.reg, "poetry_bot"))
        => (routed.bot = BotAt(routed.reg, "poetry_bot") /\ routed.rule = "direct")

\* C4, amended: the patterns recognise the Cyrillic address only. The text
\* "Poet: write about the sea" matches no pattern and no keyword and goes by
\* the default rule or the fallback rule; the same request addressed as
\* "Поэт: write about the sea" goes to the poetry handler by the direct-address
\* rule whenever that handler is registered, with or without main_bot.
C4_CyrillicAddress ==
    routed.called =>
        /\ routed.text = T_PoetSea
              => /\ routed.rule \in {"default", "fallback", "none"}
                 /\ routed.bot = DefaultOrFallback(routed.reg)
        /\ (routed.text = T_PoetSeaRu /\ HasBot(routed.reg, "poetry_bot"))
              => /\ routed.rule = "direct"
                 /\ routed.bot = BotAt(routed.reg, "poetry_bot")

\* C4 happens: "Поэт: write about the sea" went to poetry_bot by the
\* direct-address rule with main_bot registered too.
C4_Witness ==
    /\ routed.called
    /\ routed.text = T_PoetSeaRu
    /\ HasBot(routed.reg, "main_bot")
    /\ HasBot(routed.reg, "poetry_bot")
    /\ routed.rule = "direct"
    /\ routed.bot = BotAt(routed.reg, "poetry_bot")

\* C5 as stated: with both handlers registered, "I'd like a song about rain"
\* goes to the poetry handler by the keyword rule.
C5_AsStated ==
    (routed.called /\ routed.text = T_SongRain
        /\ HasBot(routed.reg, "poetry_bot") /\ HasBot(routed.reg, "main_bot"))
        => (routed.bot = BotAt(routed.reg, "poetry_bot") /\ routed.rule = "keyword")

\* C5, amended: the keywords are Russian stems and "suno"; "song" is none of
\* them. With both handlers registered, "I'd like a song about rain" goes to
\* the general handler by the default rule, and "Хочу песню про дождь" goes to
\* the poetry handler because the keyword "песн" triggers the keyword rule.
C5_RussianKeyword ==
    (routed.called /\ HasBot(routed.reg, "poetry_bot") /\ HasBot(routed.reg, "main_bot"))
        => /\ routed.text = T_SongRain
                => /\ routed.rule = "default"
                   /\ routed.bot = BotAt(routed.reg, "main_bot")
           /\ routed.text = T_SongRainRu
                => /\ routed.rule = "keyword"
                   /\ routed.bot = BotAt(routed.reg, "poetry_bot")

\* C5 happens: "Хочу песню про дождь" went to poetry_bot by the keyword rule
\* with both handlers registered.
C5_Witness ==
    /\ routed.called
    /\ routed.text = T_SongRainRu
    /\ HasBot(routed.reg, "main_bot")
    /\ HasBot(routed.reg, "poetry_bot")
    /\ routed.rule = "keyword"
    /\ routed.bot = BotAt(routed.reg, "poetry_bot")

\* the variables a call of the router must leave alone: the registry, the
\* handlers, the manager and the stored statistics
RouterFrame == <<bots, manager, is_initialized, components, is_running, bot_stats,
                   init_runs, shutdown_runs, last_call, stats_before>>

\* C8 as stated: registries with the same name-to-handler contents give the
\* same handler for the same text.
C8_AsStated ==
    routed.called =>
        \A reg \in SameContents(routed.reg) :
            route_text_message(routed.text, reg).bot = routed.bot

\* C8, amended: the result does not depend on the insertion order of the
\* registry whenever main_bot is registered or the direct-address or keyword
\* rule selects the handler (under the fallback rule the first inserted handler
\* is returned); and a call changes neither the registry nor any handler.
C8_OrderOnlyInFallback ==
    /\ [](routed.called =>
            ((HasBot(routed.reg, "main_bot") \/ routed.rule \in {"direct", "keyword"})
                => \A reg \in SameContents(routed.reg) :
                       route_text_message(routed.text, reg).bot = routed.bot))
    /\ [][routed' # routed => UNCHANGED RouterFrame]_vars

\* C8 happens: main_bot registered last of three, a plain text, and main_bot
\* returned.
C8_Witness ==
    /\ routed.called
    /\ Len(routed.reg) = 3
    /\ NameOf[routed.reg[3]] = "main_bot"
    /\ routed.rule = "default"
    /\ routed.bot = routed.reg[3]

(***************************************************************************)
(* BaseBot.initialize / shutdown, BotManager.start / stop.                  *)
(***************************************************************************)
\* the bots of the registry
Registered(reg) == {reg[i] : i \in 1..Len(reg)}

\* the bot the loop over self.bots.values() comes to last
LastOf(reg) == IF Len(reg) = 0 THEN None ELSE reg[Len(reg)]

\* the first file of a directory listing whose unlink() fails, 0 when none
FirstFailure(files) ==
    IF \A i \in 1..Len(files) : files[i].deletable THEN 0
    ELSE CHOOSE i \in 1..Len(files) :
            /\ ~files[i].deletable
            /\ \A j \in 1..(i - 1) : files[j].deletable

\* a cleanup bug: the loop over the files without the try block around
\* unlink(), so that the first failure ends it
unlink_all_until_failure(files) ==
    IF FirstFailure(files) = 0 THEN <<>>
    ELSE SubSeq(files, FirstFailure(files), Len(files))

\* `for file in self.temp_dir.glob("*"): try: file.unlink() except ...` of
\* _shutdown_bot: what is left of the directory, every file whose unlink()
\* succeeds being gone and the others logged
unlink_all(files) == SelectSeq(files, LAMBDA f : ~f.deletable)

\* MainBot.__init__ and PoetryBot.__init__ create self.temp_dir; BaseBot has none
HasTempDir(b) == ClassOf[b] \in {"MainBot", "PoetryBot"}

\* a lifecycle bug: initialize() without the is_initialized test
InitializeAll_unguarded(S, last) ==
    /\ \A b \in S : init_runs[b] < MaxInitRuns
    /\ is_initialized' = [b \in BotIds |-> is_initialized[b] \/ b \in S]
    /\ components' = [b \in BotIds |-> components[b] \/ b \in S]
    /\ init_runs' = [b \in BotIds |->
                        IF b \in S THEN init_runs[b] + 1 ELSE init_runs[b]]
    /\ last_call' = IF last = None THEN last_call
                    ELSE [op |-> "initialize", bot |-> last, warned |-> FALSE,
                          ran |-> TRUE]
    /\ UNCHANGED shutdown_runs

\* BaseBot.initialize on every bot of the set S: an initialized bot only
\* warns, another one runs _initialize_bot, which creates its collaborators
InitializeAll(S, last) ==
    /\ \A b \in S : ~is_initialized[b] => init_runs[b] < MaxInitRuns
    /\ is_initialized' = [b \in BotIds |-> is_initialized[b] \/ b \in S]
    /\ components' = [b \in BotIds |-> components[b] \/ (b \in S /\ ~is_initialized[b])]
    /\ init_runs' = [b \in BotIds |->
                        IF b \in S /\ ~is_initialized[b]
                        THEN init_runs[b] + 1 ELSE init_runs[b]]
    /\ last_call' = IF last = None THEN last_call
                    ELSE [op |-> "initialize", bot |-> last,
                          warned |-> is_initialized[last],
                          ran |-> ~is_initialized[last]]
    /\ UNCHANGED shutdown_runs

\* a lifecycle bug: shutdown() without the is_initialized test
ShutdownAll_unguarded(S, last) ==
    /\ is_initialized' = [b \in BotIds |-> is_initialized[b] /\ b \notin S]
    /\ shutdown_runs' = [b \in BotIds |->
                            IF b \in S /\ shutdown_runs[b] < MaxInitRuns
                            THEN shutdown_runs[b] + 1 ELSE shutdown_runs[b]]
    /\ last_call' = IF last = None THEN last_call
                    ELSE [op |-> "shutdown", bot |-> last, warned |-> FALSE,
                          ran |-> TRUE]
    /\ temp_dir' = [b \in BotIds |->
                       IF b \in S /\ HasTempDir(b)
                       THEN unlink_all(temp_dir[b]) ELSE temp_dir[b]]
    /\ UNCHANGED <<components, init_runs>>

\* BaseBot.shutdown on every bot of the set S: a bot that is not initialized
\* only warns, another one runs _shutdown_bot, which keeps the collaborators
\* and empties self.temp_dir as far as the files let it
ShutdownAll(S, last) ==
    /\ is_initialized' = [b \in BotIds |-> is_initialized[b] /\ b \notin S]
    /\ shutdown_runs' = [b \in BotIds |->
                            IF b \in S /\ is_initialized[b]
                            THEN shutdown_runs[b] + 1 ELSE shutdown_runs[b]]
    /\ last_call' = IF last = None THEN last_call
                    ELSE [op |-> "shutdown", bot |-> last,
                          warned |-> ~is_initialized[last],
                          ran |-> is_initialized[last]]
    /\ temp_dir' = [b \in BotIds |->
                       IF b \in S /\ is_initialized[b] /\ HasTempDir(b)
                       THEN unlink_all(temp_dir[b]) ELSE temp_dir[b]]
    /\ UNCHANGED <<components, init_runs>>

\* a direct call of bot.initialize()
initialize(b) ==
    /\ pc = "idle"
    /\ InitializeAll({b}, b)
    /\ UNCHANGED <<bots, manager, is_running, routed, pc, upd, cur_bot, response,
                   events, call_env, bot_stats, stats_before, service_vars,
                   temp_dir>>

\* a direct call of bot.shutdown()
shutdown(b) ==
    /\ pc = "idle"
    /\ ShutdownAll({b}, b)
    /\ UNCHANGED <<bots, manager, is_running, routed, pc, upd, cur_bot, response,
                   events, call_env, bot_stats, stats_before, service_vars>>

\* the bot objects alone: every order of initialize() and shutdown() calls
NextLife ==
    \/ \E b \in BotIds : initialize(b)
    \/ \E b \in BotIds : shutdown(b)

SpecLife == Init /\ [][NextLife]_vars

\* BotManager.start: initialize() on every registered bot, then is_running;
\* run_polling then dispatches the updates until the manager is stopped
start ==
    /\ ~is_running
    /\ pc = "idle"
    /\ InitializeAll(Registered(bots), LastOf(bots))
    /\ is_running' = TRUE
    /\ manager_call' = [op |-> "start", warned |-> FALSE, raised |-> FALSE]
    /\ UNCHANGED <<bots, manager, routed, pc, upd, cur_bot, response, events,
                   call_env, bot_stats, stats_before, stats_calls, web, ai, main,
                   voice_calls, temp_dir>>

\* BotManager.stop: shutdown() on every registered bot, then is_running cleared
stop ==
    /\ is_running
    /\ pc = "idle"
    /\ ShutdownAll(Registered(bots), LastOf(bots))
    /\ is_running' = FALSE
    /\ manager_call' = [op |-> "stop", warned |-> FALSE, raised |-> FALSE]
    /\ UNCHANGED <<bots, manager, routed, pc, upd, cur_bot, response, events,
                   call_env, bot_stats, stats_before, stats_calls, web, ai, main,
                   voice_calls>>

(***************************************************************************)
(* BotManager._handle_text. An update is dispatched while the application   *)
(* polls; every call of the transport may fail (ok = FALSE: it raised).     *)
(***************************************************************************)
\* the texts that arrive as updates
DispatchTexts == {T_PoetSeaRu, T_SongRainRu, T_WhatTime, T_MainVerse}

\* the message PoetryBot.process_text sends before it works on a track
POETRY_NOTICE == "poetry_bot.py:93 starting the poem and the track"

\* what the handler itself sends through the transport during process_text
HandlerSends(b, text, env) ==
    IF ClassOf[b] = "PoetryBot" /\ WantsMusic(text)
    THEN <<Ev("send_message", b, POETRY_NOTICE, env.notify = "ok")>>
    ELSE <<>>

\* a text-handling bug: the branch without a handler stays silent
NoTargetSends_silent(ok) == <<>>

\* lines 132-135: no handler at all, the user is told so
NoTargetSends(ok) == <<Ev("reply_text", None, NO_BOT_APOLOGY, ok)>>

\* every call of the sequence went through
AllOk(sends) == \A i \in 1..Len(sends) : sends[i].ok

\* lines 114-120 and 125-135: route, pick the handler, or apologise when there
\* is none
HandleText(text) ==
    /\ is_running
    /\ pc = "idle"
    /\ LET r == route_text_message(text, bots)
           main_bot == get_bot(bots, "main_bot")
           target == IF r.bot # None THEN r.bot ELSE main_bot
       IN  /\ routed' = [called |-> TRUE, text |-> text, reg |-> bots,
                         bot |-> r.bot, rule |-> r.rule]
           /\ upd' = [kind |-> "text", text |-> text]
           /\ cur_bot' = target
           /\ response' = NoneValue
           /\ IF target # None
              THEN /\ events' = <<>>
                   /\ pc' = "process_text"
              ELSE \E ok \in BOOLEAN :
                   /\ events' = NoTargetSends(ok)
                   /\ pc' = IF AllOk(NoTargetSends(ok)) THEN "done" ELSE "error"
    /\ stats_before' = bot_stats
    /\ UNCHANGED <<bots, manager, is_initialized, components, is_running, call_env,
                   bot_stats, init_runs, shutdown_runs, last_call, service_vars,
                   temp_dir>>

\* lines 122-123 and 129-130: await the handler; an exception leaves the
\* callback, a false response ends it
ProcessText ==
    /\ pc = "process_text"
    /\ \E env \in EnvsOf(ClassOf[cur_bot], "text", WantsMusic(upd.text)) :
         LET out == process_text(cur_bot, components[cur_bot], upd.text, env)
         IN  IF NeverReturns(cur_bot, components[cur_bot], upd.text, env)
             THEN /\ events' = events \o HandlerSends(cur_bot, upd.text, env)
                  /\ response' = response
                  /\ call_env' = env
                  /\ pc' = "blocked"
             ELSE /\ events' = events \o HandlerSends(cur_bot, upd.text, env)
                                      \o <<Ev("process_text", cur_bot, "", ~out.raised)>>
                  /\ response' = out
                  /\ call_env' = env
                  /\ pc' = IF out.raised THEN "error"
                           ELSE IF Truthy(out) THEN "reply"
                           ELSE "done"
    /\ UNCHANGED <<bots, manager, is_initialized, components, is_running, routed,
                   upd, cur_bot, bot_stats,
                   init_runs, shutdown_runs, last_call, stats_before, service_vars,
                   temp_dir>>

\* lines 124 and 131: await update.message.reply_text(response)
ReplyText ==
    /\ pc = "reply"
    /\ \E ok \in BOOLEAN :
         /\ events' = Append(events, Ev("reply_text", None, response.body, ok))
         /\ pc' = IF ok THEN "done" ELSE "error"
    /\ UNCHANGED <<bots, manager, is_initialized, components, is_running, routed,
                   upd, cur_bot, response, call_env, bot_stats,
                   init_runs, shutdown_runs, last_call, stats_before, service_vars,
                   temp_dir>>

(***************************************************************************)
(* BotManager._error_handler: the application hands it every exception that *)
(* leaves a callback (add_error_handler, line 54); an exception of the      *)
(* error handler itself is logged by the application.                       *)
(***************************************************************************)
\* an error-handler bug: the exception is logged and the user hears nothing
ErrorSends_silent(ok) == <<>>

\* lines 174-176: the apology sent when the update has a message to answer
ErrorSends(ok) == <<Ev("error_reply", None, GENERIC_APOLOGY, ok)>>

error_handler ==
    /\ pc = "error"
    /\ \E ok \in BOOLEAN : events' = events \o ErrorSends(ok)
    /\ pc' = "done"
    /\ UNCHANGED <<bots, manager, is_initialized, components, is_running, routed,
                   upd, cur_bot, response, call_env, bot_stats,
                   init_runs, shutdown_runs, last_call, stats_before, service_vars,
                   temp_dir>>

(***************************************************************************)
(* BotManager._handle_voice.                                                *)
(***************************************************************************)
\* lines 139-146 and 165-168: get the file, look main_bot up, send the
\* processing notice, or the fixed message when there is no main_bot
\* a voice-handling bug: without main_bot the first registered bot is taken
voice_target_any(reg) ==
    IF get_bot(reg, "main_bot") # None THEN get_bot(reg, "main_bot")
    ELSE IF Len(reg) > 0 THEN reg[1]
    ELSE None

\* line 143: main_bot = self.get_bot("main_bot")
voice_target(reg) == get_bot(reg, "main_bot")

HandleVoice ==
    /\ is_running
    /\ pc = "idle"
    /\ upd' = [kind |-> "voice", text |-> <<>>]
    /\ response' = NoneValue
    /\ \E got_file \in BOOLEAN, ok \in BOOLEAN :
         LET main_bot == voice_target(bots)
         IN  IF ~got_file
             THEN /\ events' = <<Ev("get_file", None, "", FALSE)>>
                  /\ cur_bot' = None
                  /\ pc' = "error"
             ELSE IF main_bot # None
             THEN /\ events' = <<Ev("reply_text", None, VOICE_NOTICE, ok)>>
                  /\ cur_bot' = main_bot
                  /\ pc' = IF ok THEN "process_voice" ELSE "error"
             ELSE /\ events' = <<Ev("reply_text", None, VOICE_UNAVAILABLE, ok)>>
                  /\ cur_bot' = None
                  /\ pc' = IF ok THEN "done" ELSE "error"
    /\ stats_before' = bot_stats
    /\ UNCHANGED <<bots, manager, is_initialized, components, is_running, routed,
                   call_env, bot_stats,
                   init_runs, shutdown_runs, last_call, service_vars,
                   temp_dir>>

\* line 149: await main_bot.process_voice
ProcessVoice ==
    /\ pc = "process_voice"
    /\ \E env \in EnvsOf(ClassOf[cur_bot], "voice", FALSE) :
         LET out == process_voice(cur_bot, components, bots, manager, env)
         IN  /\ events' = Append(events, Ev("process_voice", cur_bot, "", ~out.raised))
             /\ response' = out
             /\ call_env' = env
             /\ pc' = IF out.raised THEN "error" ELSE "voice_deliver"
    /\ UNCHANGED <<bots, manager, is_initialized, components, is_running, routed,
                   upd, cur_bot, bot_stats,
                   init_runs, shutdown_runs, last_call, stats_before, service_vars,
                   temp_dir>>

\* a delivery bug: the text of an audio reply is sent in place of the audio
FinalSend_text(resp, opened, ok) ==
    IF resp.type \in {"str", "dict"}
        THEN <<Ev("reply_text", None, IF resp.type = "str" THEN resp.body ELSE resp.text, ok)>>
    ELSE <<Ev("reply_text", None, VOICE_ERROR, ok)>>

\* lines 155-164: the call that delivers the response
FinalSend(resp, opened, ok) ==
    IF resp.type = "str"
        THEN <<Ev("reply_text", None, resp.body, ok)>>
    ELSE IF resp.type = "dict" /\ resp.body = VOICE_PATH
        THEN IF opened THEN <<Ev("reply_voice", None, resp.body, ok)>>
             ELSE <<Ev("open", None, resp.body, FALSE)>>
    ELSE <<Ev("reply_text", None, VOICE_ERROR, ok)>>

\* lines 152-164: delete the notice, then deliver the response
DeliverVoice ==
    /\ pc = "voice_deliver"
    /\ \E deleted \in BOOLEAN, opened \in BOOLEAN, ok \in BOOLEAN :
         LET sends == IF deleted
                      THEN <<Ev("delete", None, VOICE_NOTICE, TRUE)>>
                           \o FinalSend(response, opened, ok)
                      ELSE <<Ev("delete", None, VOICE_NOTICE, FALSE)>>
         IN  /\ events' = events \o sends
             /\ pc' = IF AllOk(sends) THEN "done" ELSE "error"
    /\ UNCHANGED <<bots, manager, is_initialized, components, is_running, routed,
                   upd, cur_bot, response, call_env, bot_stats,
                   init_runs, shutdown_runs, last_call, stats_before, service_vars,
                   temp_dir>>

(***************************************************************************)
(* The system: registration, start and stop, and the updates dispatched     *)
(* one after the other while the application polls.                         *)
(***************************************************************************)
\* the callback has returned: the application goes on to the next update
polling ==
    /\ pc = "done"
    /\ pc' = "idle"
    /\ routed' = NotRouted
    /\ upd' = NoUpdate
    /\ cur_bot' = None
    /\ response' = NoneValue
    /\ events' = <<>>
    /\ call_env' = CalmEnv
    /\ stats_before' = <<>>
    /\ UNCHANGED <<bots, manager, is_initialized, components, is_running, bot_stats,
                   init_runs, shutdown_runs, last_call, service_vars,
                   temp_dir>>

Next ==
    \/ \E b \in BotIds : register_bot(b)
    \/ start
    \/ stop
    \/ \E text \in DispatchTexts : HandleText(text)
    \/ ProcessText
    \/ ReplyText
    \/ HandleVoice
    \/ ProcessVoice
    \/ DeliverVoice
    \/ error_handler
    \/ polling

Spec == Init /\ [][Next]_vars

(***************************************************************************)
(* The dispatcher and the handlers: what the processing of one update did.  *)
(***************************************************************************)
\* the handler calls among the events of the update being processed
HandlerCalls == {i \in 1..Len(events) : events[i].op \in {"process_text", "process_voice"}}

\* the update being processed is a voice message and no bot is registered
\* under 'main_bot'
VoiceWithoutMainBot == upd.kind = "voice" /\ get_bot(bots, "main_bot") = None

\* C6: a voice message is dispatched to the bot registered as main_bot and to
\* no other handler, whatever else is registered: the only handler call is
\* one process_voice of that bot, and it is made once the file is fetched and
\* the notice sent. Without a main_bot no handler is called, the only message
\* the dispatcher itself sends is the fixed 'voice processing unavailable'
\* text, which is all that happens when the transport works, and no step of
\* the processing touches the statistics.
C6_VoiceOnlyToMainBot ==
    /\ [](upd.kind = "voice" =>
            /\ \A i \in HandlerCalls :
                  /\ events[i].op = "process_voice"
                  /\ events[i].bot # None
                  /\ events[i].bot = get_bot(bots, "main_bot")
            /\ Cardinality(HandlerCalls) <= 1
            /\ (get_bot(bots, "main_bot") # None /\ AllOk(events)
                    /\ pc \in {"voice_deliver", "done"}
                => Cardinality(HandlerCalls) = 1)
            /\ (get_bot(bots, "main_bot") = None =>
                  /\ HandlerCalls = {}
                  /\ cur_bot = None
                  /\ \A i \in 1..Len(events) :
                        events[i].op = "reply_text" => events[i].msg = VOICE_UNAVAILABLE
                  /\ (AllOk(events) =>
                        /\ pc = "done"
                        /\ events = <<Ev("reply_text", None, VOICE_UNAVAILABLE, TRUE)>>)))
    /\ [][upd'.kind = "voice" => bot_stats' = bot_stats]_vars

\* C6 happens: a voice message arrived while only other bots were registered
\* and the fixed text went out
C6_Witness ==
    /\ VoiceWithoutMainBot
    /\ Len(bots) >= 2
    /\ pc = "done"
    /\ events = <<Ev("reply_text", None, VOICE_UNAVAILABLE, TRUE)>>


\* C7: with an empty registry a text message makes the router signal None
\* (no rule applies), no handler is called, and the dispatcher sends the
\* 'no bot can process' apology; when the transport accepts it the callback
\* returns normally: nothing else is sent and the error handler is not run.
C7_EmptyRegistryApology ==
    (upd.kind = "text" /\ Len(bots) = 0) =>
        /\ routed.called /\ routed.text = upd.text
        /\ routed.bot = None /\ routed.rule = "none"
        /\ cur_bot = None
        /\ HandlerCalls = {}
        /\ Len(events) >= 1
        /\ events[1].op = "reply_text" /\ events[1].msg = NO_BOT_APOLOGY
        /\ (events[1].ok =>
                /\ pc = "done"
                /\ events = <<Ev("reply_text", None, NO_BOT_APOLOGY, TRUE)>>)

\* C7 happens: a started manager without bots has answered a text
C7_Witness ==
    /\ upd.kind = "text" /\ upd.text = T_WhatTime
    /\ bots = <<>>
    /\ pc = "done"
    /\ events = <<Ev("reply_text", None, NO_BOT_APOLOGY, TRUE)>>


\* the handler calls of the update being processed that raised
RaisedCalls == {i \in HandlerCalls : ~events[i].ok}

\* C9: an exception raised by a handler's process_text or process_voice does
\* not stop the dispatcher. It leaves the callback and is given to the error
\* handler, whose step is the next thing that happens: it sends the generic
\* apology and changes nothing of the registry, of the bots or of the running
\* manager; after it the application goes on to the next update.
C9_HandlerExceptionContained ==
    /\ [](\A i \in RaisedCalls :
            \/ /\ pc = "error"
               /\ Len(events) = i
            \/ /\ pc = "done"
               /\ Len(events) = i + 1
               /\ events[i + 1].op = "error_reply"
               /\ events[i + 1].msg = GENERIC_APOLOGY
               /\ is_running
               /\ ENABLED polling)
    /\ [][pc = "error" =>
            /\ pc' = "done"
            /\ Len(events') = Len(events) + 1
            /\ events'[Len(events')].op = "error_reply"
            /\ UNCHANGED <<bots, manager, is_initialized, components, is_running,
                           bot_stats,
                   init_runs, shutdown_runs, last_call, stats_before, service_vars,
                   temp_dir>>]_vars
    /\ [][pc = "done" => pc' = "idle" /\ UNCHANGED <<bots, is_running>>]_vars
    /\ [](pc = "idle" /\ is_running =>
            /\ ENABLED HandleVoice
            /\ \A text \in DispatchTexts : ENABLED HandleText(text))

\* C9 happens: a bot registered as main_bot raised in process_voice and the
\* user got the generic apology
C9_Witness ==
    /\ pc = "done"
    /\ upd.kind = "voice"
    /\ RaisedCalls # {}
    /\ events[Len(events)] = Ev("error_reply", None, GENERIC_APOLOGY, TRUE)


\* a call of MainBot.process_text, MainBot.process_voice or
\* PoetryBot.process_text has been made for the update being processed
OwnHandlerCalled ==
    /\ HandlerCalls # {}
    /\ cur_bot # None
    /\ \/ ClassOf[cur_bot] = "MainBot"
       \/ ClassOf[cur_bot] = "PoetryBot" /\ upd.kind = "text"

\* the internal steps of that call that raised inside the handler: the
\* download, the start notice, the use of a collaborator that is not there
StepsThatRaised ==
    LET e == call_env
        comp == components[cur_bot]
    IN  IF upd.kind = "voice"
        THEN IF e.download = "raise" THEN {"download"}
             ELSE IF ~comp THEN {"collaborator"} ELSE {}
        ELSE IF ClassOf[cur_bot] = "PoetryBot" /\ WantsMusic(upd.text)
                /\ e.notify = "raise"
             THEN {"notify"}
             ELSE IF ~comp THEN {"collaborator"} ELSE {}

\* the internal steps of that call whose failure the collaborator kept to
\* itself: nothing recognised, no answer of the provider, no audio, no poem,
\* no track
StepsThatFailedQuietly ==
    LET e == call_env
    IN  IF StepsThatRaised # {} THEN {}
        ELSE IF upd.kind = "voice"
        THEN IF e.stt = "empty" THEN {"stt"}
             ELSE {s \in {"ai", "tts"} : \/ s = "ai" /\ e.ai = "failed"
                                         \/ s = "tts" /\ ~e.tts}
        ELSE IF ClassOf[cur_bot] = "MainBot"
        THEN {s \in {"ai"} : e.ai = "failed"}
        ELSE {s \in {"poem", "track"} :
                \/ s = "poem" /\ e.poem # "poem"
                \/ s = "track" /\ WantsMusic(upd.text) /\ e.track = "none"}

\* the reply is one of the fixed apologetic texts
FixedApology(v) ==
    v.type = "str" /\ v.body \in FixedApologies \cup {AI_APOLOGY} /\ v.text = ""

RECURSIVE StatSum(_, _, _)
StatSum(rows, name, field) ==
    IF Len(rows) = 0 THEN 0
    ELSE (IF rows[1].bot_name = name THEN rows[1][field] ELSE 0)
         + StatSum(Tail(rows), name, field)

\* the processing of the update is over and it came to a handler call
CallProcessed == pc = "done" /\ HandlerCalls # {} /\ cur_bot # None

\* the counter of the called handler grew by n while the update was processed
StatGrewBy(field, n) ==
    StatSum(bot_stats, NameOf[cur_bot], field)
        = StatSum(stats_before, NameOf[cur_bot], field) + n

\* C11 as the specification states it: when the processing of an update that
\* came to a handler call is over, the statistics of that handler have been
\* upserted exactly once: request_count is one higher than when the update
\* arrived, and so is exactly one of success_count and error_count.
C11_AsStated ==
    CallProcessed =>
        /\ StatGrewBy("request_count", 1)
        /\ \/ StatGrewBy("success_count", 1) /\ StatGrewBy("error_count", 0)
           \/ StatGrewBy("success_count", 0) /\ StatGrewBy("error_count", 1)

\* C11 does not happen: main_bot answered a text, the reply was delivered,
\* and the statistics are what they were when the update arrived
C11_Witness ==
    /\ CallProcessed
    /\ upd.kind = "text"
    /\ ClassOf[cur_bot] = "MainBot"
    /\ events = <<Ev("process_text", cur_bot, "", TRUE),
                  Ev("reply_text", None, "ai answer", TRUE)>>
    /\ bot_stats = stats_before


\* the handler caught a failure of its own and returned its apologetic reply
CaughtFailure ==
    /\ OwnHandlerCalled
    /\ StepsThatRaised # {}
    /\ ~response.raised
    /\ FixedApology(response)

\* C12 as the specification states it: when the handler has caught a failure
\* and returned its apologetic reply, the call is recorded as failed: the
\* handler's error_count is one higher than when the update arrived and its
\* success_count is what it was.
C12_AsStated ==
    (CallProcessed /\ CaughtFailure) =>
        /\ StatGrewBy("error_count", 1)
        /\ StatGrewBy("success_count", 0)

\* C12 does not happen: the download failed inside MainBot.process_voice, the
\* apology went out like any reply, and no counter has moved
C12_Witness ==
    /\ CallProcessed
    /\ CaughtFailure
    /\ upd.kind = "voice"
    /\ call_env.download = "raise"
    /\ events[Len(events)] = Ev("reply_text", None, MAIN_VOICE_APOLOGY, TRUE)
    /\ StatGrewBy("error_count", 0)
    /\ StatGrewBy("request_count", 0)


(***************************************************************************)
(* The lifecycle of the handlers and the dispatcher.                        *)
(***************************************************************************)
\* a voice message is being processed and the bot registered as main_bot is
\* not initialized
VoiceForUninitializedMainBot ==
    /\ upd.kind = "voice"
    /\ get_bot(bots, "main_bot") # None
    /\ ~is_initialized[get_bot(bots, "main_bot")]

\* C13 as the specification states it: a voice message for a registered but
\* uninitialized main_bot never comes to a process_voice call, and once the
\* processing is over the user has been sent the generic apology.
C13_AsStated ==
    VoiceForUninitializedMainBot =>
        /\ HandlerCalls = {}
        /\ (pc = "done" =>
                \E i \in 1..Len(events) : events[i].msg = GENERIC_APOLOGY)

\* C13 does not happen: main_bot was registered after start(), a voice
\* message came, process_voice was called on the uninitialized bot and its
\* own apology was delivered as the reply
C13_Witness ==
    /\ VoiceForUninitializedMainBot
    /\ cur_bot # None
    /\ ClassOf[cur_bot] = "MainBot"
    /\ pc = "done"
    /\ events = <<Ev("reply_text", None, VOICE_NOTICE, TRUE),
                  Ev("process_voice", cur_bot, "", TRUE),
                  Ev("delete", None, VOICE_NOTICE, TRUE),
                  Ev("reply_text", None, MAIN_VOICE_APOLOGY, TRUE)>>


\* C14 as the specification states it: every process_text and process_voice
\* call the dispatcher makes is made on a handler whose is_initialized is
\* true (the lifecycle of a handler does not change while an update is being
\* processed).
C14_AsStated ==
    \A i \in HandlerCalls : is_initialized[events[i].bot]

\* C14 does not happen: poetry_bot was registered after start(), never
\* initialized, and process_text was called on it
C14_Witness ==
    /\ upd.kind = "text"
    /\ cur_bot = "poetry"
    /\ init_runs["poetry"] = 0
    /\ ~is_initialized["poetry"]
    /\ is_running
    /\ HandlerCalls # {}
    /\ events[Len(events)] = Ev("process_text", "poetry", "", TRUE)


\* what initialize() and shutdown() can change of the bot objects
BotState == <<is_initialized, components, init_runs, shutdown_runs>>

\* the step is a call of op on the bot b
IsCall(op, b) ==
    /\ last_call' # last_call
    /\ last_call'.op = op
    /\ last_call'.bot = b

\* C15: initialize() on an initialized handler only warns: it runs no
\* _initialize_bot, raises nothing and leaves the handler as the first call
\* left it. After an initialize() call, the first or a repeated one, the
\* handler is initialized, has its collaborators, and _initialize_bot has run
\* exactly once since the handler was created or last shut down.
C15_InitializeIdempotent ==
    /\ [](last_call.op = "initialize" =>
            /\ is_initialized[last_call.bot]
            /\ components[last_call.bot]
            /\ init_runs[last_call.bot] = shutdown_runs[last_call.bot] + 1
            /\ last_call.warned = ~last_call.ran)
    /\ [][\A b \in BotIds :
            /\ (IsCall("initialize", b) /\ is_initialized[b] =>
                    /\ last_call'.warned /\ ~last_call'.ran
                    /\ UNCHANGED <<BotState, bots, manager, is_running>>)
            /\ (IsCall("initialize", b) /\ ~is_initialized[b] =>
                    /\ ~last_call'.warned /\ last_call'.ran
                    /\ init_runs'[b] = init_runs[b] + 1)]_vars

\* C15 happens: initialize() was called on main_bot a second time
C15_Witness ==
    /\ last_call = [op |-> "initialize", bot |-> "main", warned |-> TRUE,
                    ran |-> FALSE]
    /\ is_initialized["main"]
    /\ init_runs["main"] = 1
    /\ shutdown_runs["main"] = 0


\* C16: shutdown() on a handler that is not initialized, never initialized or
\* already shut down, only warns: it runs no _shutdown_bot and changes
\* nothing, so a second shutdown() leaves what the first one left. On an
\* initialized handler it runs _shutdown_bot once and clears is_initialized.
C16_ShutdownIdempotent ==
    /\ [](last_call.op = "shutdown" =>
            /\ ~is_initialized[last_call.bot]
            /\ shutdown_runs[last_call.bot] = init_runs[last_call.bot]
            /\ last_call.warned = ~last_call.ran)
    /\ [][\A b \in BotIds :
            /\ (IsCall("shutdown", b) /\ ~is_initialized[b] =>
                    /\ last_call'.warned /\ ~last_call'.ran
                    /\ UNCHANGED <<BotState, bots, manager, is_running>>)
            /\ (IsCall("shutdown", b) /\ is_initialized[b] =>
                    /\ ~last_call'.warned /\ last_call'.ran
                    /\ shutdown_runs'[b] = shutdown_runs[b] + 1
                    /\ UNCHANGED <<components, init_runs>>)]_vars

\* C16 happens: shutdown() was called a second time on main_bot
C16_Witness ==
    /\ last_call = [op |-> "shutdown", bot |-> "main", warned |-> TRUE,
                    ran |-> FALSE]
    /\ init_runs["main"] = 1
    /\ shutdown_runs["main"] = 1
    /\ ~is_initialized["main"]


\* C17 as the specification states it: a handler on which _shutdown_bot has
\* run is never initialized again.
C17_AsStated ==
    \A b \in BotIds : shutdown_runs[b] > 0 => ~is_initialized[b]

\* C17 does not happen: initialize(), shutdown() and initialize() again on the
\* same main_bot object, which is initialized a second time
C17_Witness ==
    /\ last_call = [op |-> "initialize", bot |-> "main", warned |-> FALSE,
                    ran |-> TRUE]
    /\ shutdown_runs["main"] = 1
    /\ init_runs["main"] = 2
    /\ is_initialized["main"]


(***************************************************************************)
(* What the dispatcher calls and delivers for one update.                   *)
(***************************************************************************)
\* the messages the dispatcher itself has sent as replies to the update
Replies == {i \in 1..Len(events) : events[i].op \in {"reply_text", "reply_voice"}}

\* a text message is being processed and the registry is not empty
TextWithBots == upd.kind = "text" /\ Len(bots) > 0

\* the handler call of the update has returned a value
Returned == HandlerCalls # {} /\ ~response.raised

\* the one handler of a text message: the routed one, process_text called on
\* it and on no other, once
OneTextCall ==
    /\ routed.called /\ routed.text = upd.text /\ routed.reg = bots
    /\ routed.bot = route_text_message(upd.text, bots).bot
    /\ routed.bot # None
    /\ cur_bot = routed.bot
    /\ \A i \in HandlerCalls :
          events[i].op = "process_text" /\ events[i].bot = routed.bot
    /\ Cardinality(HandlerCalls) = IF pc \in {"process_text", "blocked"} THEN 0 ELSE 1

\* C18 as the specification states it: one process_text call on the routed
\* handler; a reply that is not null is delivered once, and nothing is
\* delivered for a null reply.
C18_AsStated ==
    TextWithBots =>
        /\ OneTextCall
        /\ (Returned /\ response.type # "none" =>
                /\ \A i \in Replies : events[i].msg = response.body
                /\ Cardinality(Replies) = IF pc = "reply" THEN 0 ELSE 1)
        /\ (Returned /\ response.type = "none" => Replies = {} /\ pc = "done")

\* C18: for a text message with a non-empty registry process_text is called
\* on the handler route_text_message selected and on no other, once. A
\* reply that is neither null nor empty is handed to the transport once; for
\* a null or an empty reply the dispatcher sends nothing and the processing
\* is over.
C18_OneCallOneReply ==
    TextWithBots =>
        /\ OneTextCall
        /\ (Returned /\ response.type # "none" /\ response.body # "" =>
                /\ \A i \in Replies : events[i].msg = response.body
                /\ Cardinality(Replies) = IF pc = "reply" THEN 0 ELSE 1)
        /\ (Returned /\ (response.type = "none" \/ response.body = "") =>
                /\ Replies = {}
                /\ pc = "done"
                /\ \A i \in 1..Len(events) : events[i].op # "error_reply")

\* C18 happens: poetry_bot was selected among three bots for a song, sent
\* its notice, answered with the poem and the track, and the dispatcher
\* delivered that reply
C18_Witness ==
    /\ TextWithBots
    /\ Len(bots) = 3
    /\ routed.rule = "keyword"
    /\ cur_bot = "poetry"
    /\ pc = "done"
    /\ events = <<Ev("send_message", "poetry", POETRY_NOTICE, TRUE),
                  Ev("process_text", "poetry", "", TRUE),
                  Ev("reply_text", None, POEM_WITH_TRACK, TRUE)>>


\* a voice message is being processed and a bot is registered as main_bot
VoiceWithMainBot == upd.kind = "voice" /\ get_bot(bots, "main_bot") # None

\* the replies the dispatcher sent after the processing notice
FinalReplies == {i \in Replies : i > 1}

\* the final reply fits the value the handler returned
FitsResponse(e) ==
    IF response.type = "str"
        THEN e.op = "reply_text" /\ e.msg = response.body
    ELSE IF response.type = "dict" /\ response.body = VOICE_PATH
        THEN e.op = "reply_voice" /\ e.msg = VOICE_PATH
    ELSE e.op = "reply_text" /\ e.msg = VOICE_ERROR

\* C19: for a voice message with main_bot registered the handler is called
\* only after the processing notice was sent, the notice is deleted only
\* after the call has returned, and a final reply is sent only after the
\* deletion, at most once, in the form the returned value asks for: the text
\* for a text, the audio for a dict with 'voice_path', the fixed error text
\* for anything else. When the call returns and the transport works the
\* processing is exactly notice, call, deletion, final reply.
C19_VoiceNoticeCallDeleteReply ==
    VoiceWithMainBot =>
        /\ \A i \in HandlerCalls :
              /\ i = 2
              /\ events[1] = Ev("reply_text", None, VOICE_NOTICE, TRUE)
        /\ \A i \in 1..Len(events) :
              events[i].op = "delete" =>
                  i = 3 /\ 2 \in HandlerCalls /\ events[2].ok /\ Returned
        /\ Cardinality(FinalReplies) <= 1
        /\ \A i \in FinalReplies :
              /\ i = 4
              /\ events[3] = Ev("delete", None, VOICE_NOTICE, TRUE)
              /\ FitsResponse(events[i])
        /\ (pc = "done" /\ AllOk(events) =>
              /\ Len(events) = 4
              /\ FinalReplies = {4})

\* C19 happens: main_bot returned an audio reply and the audio was delivered
\* after the notice was deleted
C19_Witness ==
    /\ VoiceWithMainBot
    /\ pc = "done"
    /\ response = Dict(VOICE_PATH, "ai answer")
    /\ events = <<Ev("reply_text", None, VOICE_NOTICE, TRUE),
                  Ev("process_voice", cur_bot, "", TRUE),
                  Ev("delete", None, VOICE_NOTICE, TRUE),
                  Ev("reply_voice", None, VOICE_PATH, TRUE)>>


\* MainBot.process_voice was called, the file was downloaded, the speech was
\* recognised and answered, and the synthesis of the answer failed
SynthesisFailed ==
    /\ OwnHandlerCalled
    /\ upd.kind = "voice"
    /\ ClassOf[cur_bot] = "MainBot"
    /\ components[cur_bot]
    /\ call_env.download = "ok" /\ call_env.stt = "text" /\ call_env.ai = "answer"
    /\ ~call_env.tts

\* C20: when transcription and the AI answer succeed and the synthesis fails,
\* MainBot.process_voice returns one text, the template of transcript, answer
\* and note around the AI answer, and no audio; the dispatcher sends it as a
\* text message and sends no voice message.
C20_SynthesisFallbackText ==
    SynthesisFailed =>
        /\ ~response.raised
        /\ response.type = "str"
        /\ response.body = VOICE_FALLBACK
        /\ response.text = "ai answer"
        /\ \A i \in 1..Len(events) : events[i].op \notin {"reply_voice", "open"}
        /\ \A i \in FinalReplies : events[i].msg = VOICE_FALLBACK

\* C20 happens: the synthesis failed and the text was delivered
C20_Witness ==
    /\ SynthesisFailed
    /\ pc = "done"
    /\ events[Len(events)] = Ev("reply_text", None, VOICE_FALLBACK, TRUE)


(***************************************************************************)
(* PoetryBot.process_voice called on its own, on every registry and every   *)
(* state of the bots that register_bot and initialize() can build.          *)
(***************************************************************************)
\* what the handler that gets the audio can meet while it runs
DelegateEnvs(b) ==
    IF manager[b] /\ get_bot(bots, "main_bot") # None
    THEN EnvsOf(ClassOf[get_bot(bots, "main_bot")], "voice", FALSE)
    ELSE {CalmEnv}

\* await poetry_bot.process_voice(user_id, voice_file, context)
PoetryVoiceCall(b) ==
    /\ pc = "idle"
    /\ ClassOf[b] = "PoetryBot"
    /\ \E env \in DelegateEnvs(b) :
         /\ response' = process_voice(b, components, bots, manager, env)
         /\ call_env' = env
    /\ cur_bot' = b
    /\ pc' = "done"
    /\ UNCHANGED <<bots, manager, is_initialized, components, is_running, routed,
                   upd, events, bot_stats,
                   init_runs, shutdown_runs, last_call, stats_before, service_vars,
                   temp_dir>>

NextDelegate ==
    \/ \E b \in BotIds : register_bot(b)
    \/ \E b \in BotIds : initialize(b)
    \/ \E b \in BotIds : PoetryVoiceCall(b)
    \/ polling

SpecDelegate == Init /\ [][NextDelegate]_vars

\* a call of PoetryBot.process_voice has returned
PoetryVoiceReturned ==
    pc = "done" /\ cur_bot # None /\ ClassOf[cur_bot] = "PoetryBot"

\* the poetry bot has a manager whose registry holds a main_bot
CanDelegate ==
    manager[cur_bot] /\ get_bot(bots, "main_bot") # None

\* C21: PoetryBot.process_voice never processes audio itself. When it has a
\* manager and main_bot is registered it returns exactly what
\* main_bot.process_voice returns for the same arguments (a raised exception
\* included), otherwise the fixed 'cannot process voice messages' text; its
\* own collaborators have no part in the result.
C21_PoetryVoiceDelegates ==
    PoetryVoiceReturned =>
        /\ CanDelegate =>
             response = process_voice(get_bot(bots, "main_bot"), components,
                                      bots, manager, call_env)
        /\ ~CanDelegate => response = Str(POETRY_CANNOT_VOICE, "")
        /\ \A own \in BOOLEAN :
             process_voice(cur_bot, [components EXCEPT ![cur_bot] = own],
                           bots, manager, call_env) = response

\* the poetry bot, never initialized itself, returned the audio reply of the
\* initialized main_bot
C21_Witness ==
    /\ PoetryVoiceReturned
    /\ CanDelegate
    /\ ~components[cur_bot]
    /\ get_bot(bots, "main_bot") = "main"
    /\ response = Dict(VOICE_PATH, "ai answer")


(***************************************************************************)
(* Registration under a name the registry already holds.                    *)
(***************************************************************************)
\* the names of the registry, in the order of the dict
KeysOf(reg) == [i \in 1..Len(reg) |-> NameOf[reg[i]]]

\* C22: register_bot(b) under a name that is already registered succeeds and
\* overwrites: afterwards get_bot(b.name) is b and b's manager is this
\* manager, the registry has the same keys in the same order, every entry
\* under another name is the bot it was, and no bot, manager reference or
\* running flag other than b's manager has changed.
C22_ReRegisterOverwrites ==
    [][\A b \in BotIds :
          HasBot(bots, NameOf[b]) /\ register_bot(b) =>
              /\ get_bot(bots', NameOf[b]) = b
              /\ manager'[b]
              /\ KeysOf(bots') = KeysOf(bots)
              /\ \A i \in 1..Len(bots) :
                    NameOf[bots[i]] # NameOf[b] => bots'[i] = bots[i]
              /\ \A o \in BotIds \ {b} : manager'[o] = manager[o]
              /\ UNCHANGED <<is_initialized, components, is_running>>]_vars

\* main_bot was registered first and poetry_bot second; a second bot then
\* took the name main_bot: it stands where the first stood, and the first
\* still refers to the manager
C22_Witness ==
    /\ bots = <<"main2", "poetry">>
    /\ manager["main"] /\ manager["main2"]
    /\ get_bot(bots, "main_bot") = "main2"


(***************************************************************************)
(* Database.update_bot_stats. Every call opens its own connection; the      *)
(* SELECT is a statement of its own, and the UPDATE or INSERT with the      *)
(* commit is one write transaction of SQLite. The table has no UNIQUE       *)
(* constraint on bot_name.                                                  *)
(***************************************************************************)
NewRow(name, success) ==
    [bot_name |-> name, request_count |-> 1,
     success_count |-> IF success THEN 1 ELSE 0,
     error_count |-> IF success THEN 0 ELSE 1]

\* a storage bug: the update path counts the request but not its outcome
Bump_request_only(row, success) ==
    [row EXCEPT !.request_count = @ + 1]

\* UPDATE bot_stats SET request_count = request_count + 1, ... on one row
Bump(row, success) ==
    IF success
    THEN [row EXCEPT !.request_count = @ + 1, !.success_count = @ + 1]
    ELSE [row EXCEPT !.request_count = @ + 1, !.error_count = @ + 1]

\* the rows `WHERE bot_name = ?` selects
RowsOf(table, name) == {i \in 1..Len(table) : table[i].bot_name = name}

\* the calls that were made, returned or not
RECURSIVE StatCallsMade(_)
StatCallsMade(S) ==
    IF S = {} THEN 0
    ELSE LET c == CHOOSE x \in S : TRUE
             made == stats_calls[c].returned["main_bot"]
                     + stats_calls[c].returned["poetry_bot"]
                     + (IF stats_calls[c].pc = "idle" THEN 0 ELSE 1)
         IN  made + StatCallsMade(S \ {c})

\* lines 186-191: connect, SELECT bot_name ... WHERE bot_name = ?, fetchone
select_stats(c, name, success) ==
    /\ stats_calls[c].pc = "idle"
    /\ StatCallsMade(Callers) < MaxStatCalls
    /\ stats_calls' = [stats_calls EXCEPT ![c] =
            [@ EXCEPT !.pc = "selected", !.bot_name = name, !.success = success,
                      !.bot_exists = (RowsOf(bot_stats, name) # {})]]
    /\ UNCHANGED <<bots, manager, is_initialized, components, is_running, routed,
                   pc, upd, cur_bot, response, events, call_env, bot_stats,
                   init_runs, shutdown_runs, last_call, stats_before,
                   web, ai, main, manager_call,
                   voice_calls, temp_dir>>

\* lines 193-234: UPDATE when the SELECT found a row, INSERT when it did not,
\* commit, close. ok is false when a statement or the commit raises: nothing
\* is committed, the except clause logs, and the call returns all the same
write_stats(c, ok) ==
    /\ stats_calls[c].pc = "selected"
    /\ LET call == stats_calls[c]
       IN  /\ bot_stats' =
                 IF ~ok THEN bot_stats
                 ELSE IF call.bot_exists
                 THEN [i \in 1..Len(bot_stats) |->
                          IF bot_stats[i].bot_name = call.bot_name
                          THEN Bump(bot_stats[i], call.success)
                          ELSE bot_stats[i]]
                 ELSE Append(bot_stats, NewRow(call.bot_name, call.success))
           /\ stats_calls' = [stats_calls EXCEPT ![c] =
                 [@ EXCEPT !.pc = "idle",
                           !.returned[call.bot_name] = @ + 1,
                           !.errors = @ + (IF ok THEN 0 ELSE 1)]]
    /\ UNCHANGED <<bots, manager, is_initialized, components, is_running, routed,
                   pc, upd, cur_bot, response, events, call_env,
                   init_runs, shutdown_runs, last_call, stats_before,
                   web, ai, main, manager_call,
                   voice_calls, temp_dir>>

\* one call after the other
NextStatsSeq ==
    \/ \E c \in Callers, name \in StatNames, success \in BOOLEAN :
          (\A d \in Callers : stats_calls[d].pc = "idle")
          /\ select_stats(c, name, success)
    \/ \E c \in Callers, ok \in BOOLEAN : write_stats(c, ok)

SpecStatsSeq == Init /\ [][NextStatsSeq]_vars

\* calls from two threads or two processes, in any interleaving
NextStats ==
    \/ \E c \in Callers, name \in StatNames, success \in BOOLEAN :
          select_stats(c, name, success)
    \/ \E c \in Callers, ok \in BOOLEAN : write_stats(c, ok)

SpecStats == Init /\ [][NextStats]_vars

\* the counters of the handler `name`: those of its row, zero when it has none
CountOf(table, name, field) ==
    IF RowsOf(table, name) = {} THEN 0
    ELSE table[CHOOSE i \in RowsOf(table, name) : TRUE][field]

\* the step is the write of a call for `name` that met no database error
WroteFor(c, name, success) ==
    /\ stats_calls[c].bot_name = name
    /\ stats_calls[c].success = success
    /\ write_stats(c, TRUE)

\* C23: in any sequence of update_bot_stats calls made one after the other,
\* a call raises the named handler's request_count by exactly 1 and exactly
\* one of success_count (success) and error_count (failure) by 1, whether it
\* inserts the row or updates it, and leaves every other handler's row alone;
\* a call that meets a database error changes nothing and still returns.
\* No counter ever decreases, there is at most one row per name, and
\* request_count = success_count + error_count holds for every row.
C23_SequentialCounters ==
    /\ [](\A i \in 1..Len(bot_stats) :
            /\ bot_stats[i].request_count
                 = bot_stats[i].success_count + bot_stats[i].error_count
            /\ Cardinality(RowsOf(bot_stats, bot_stats[i].bot_name)) = 1)
    /\ [][\A c \in Callers, name \in StatNames, success \in BOOLEAN :
            WroteFor(c, name, success) =>
               /\ CountOf(bot_stats', name, "request_count")
                    = CountOf(bot_stats, name, "request_count") + 1
               /\ CountOf(bot_stats', name, "success_count")
                    = CountOf(bot_stats, name, "success_count")
                      + (IF success THEN 1 ELSE 0)
               /\ CountOf(bot_stats', name, "error_count")
                    = CountOf(bot_stats, name, "error_count")
                      + (IF success THEN 0 ELSE 1)
               /\ \A other \in StatNames \ {name},
                     field \in {"request_count", "success_count", "error_count"} :
                     CountOf(bot_stats', other, field) = CountOf(bot_stats, other, field)]_vars
    /\ [][\A c \in Callers : write_stats(c, FALSE) => bot_stats' = bot_stats]_vars
    /\ [][\A name \in StatNames,
             field \in {"request_count", "success_count", "error_count"} :
             CountOf(bot_stats', name, field) >= CountOf(bot_stats, name, field)]_vars

\* three calls for main_bot have returned, the first inserted the row and
\* the others updated it: two successes and one failure
C23_Witness ==
    /\ \A c \in Callers : stats_calls[c].pc = "idle" /\ stats_calls[c].errors = 0
    /\ bot_stats = <<[bot_name |-> "main_bot", request_count |-> 3,
                      success_count |-> 2, error_count |-> 1]>>


\* the calls for `name` that have returned
ReturnedFor(name) == stats_calls[1].returned[name] + stats_calls[2].returned[name]

\* no call is under way and no call met a database error
StatsQuiet ==
    \A c \in Callers : stats_calls[c].pc = "idle" /\ stats_calls[c].errors = 0

\* C24 as the specification states it: after any interleaving of concurrent
\* update_bot_stats calls for one handler name the table holds exactly one
\* row for that name, and its request_count is the number of completed calls.
C24_AsStated ==
    StatsQuiet =>
        \A name \in StatNames :
            ReturnedFor(name) > 0 =>
                /\ Cardinality(RowsOf(bot_stats, name)) = 1
                /\ CountOf(bot_stats, name, "request_count") = ReturnedFor(name)

\* two first calls for main_bot both found no row and both inserted one; a
\* third call then raised the counters of both rows
C24_Witness ==
    /\ StatsQuiet
    /\ ReturnedFor("main_bot") = 3
    /\ bot_stats = <<[bot_name |-> "main_bot", request_count |-> 2,
                      success_count |-> 2, error_count |-> 0],
                     [bot_name |-> "main_bot", request_count |-> 2,
                      success_count |-> 2, error_count |-> 0]>>


(***************************************************************************)
(* WebAutomation.create_suno_track: one step per level of the recursion.    *)
(***************************************************************************)
\* `max_retries: int = 3`
DEFAULT_MAX_RETRIES == 3

\* a retry bug: the except clause calls again with the budget it was given
AfterRaise_same_budget(m) ==
    [retry |-> TRUE, max_retries |-> m]

\* lines 148-156: the except clause calls again with one retry less while
\* max_retries > 0, and returns None otherwise
AfterRaise(m) ==
    IF m > 0 THEN [retry |-> TRUE, max_retries |-> m - 1]
    ELSE [retry |-> FALSE, max_retries |-> m]

\* await web_automation.create_suno_track(prompt, max_retries)
create_suno_track(m) ==
    /\ web.pc \in {"idle", "returned"}
    /\ web.calls < MaxSunoCalls
    /\ web' = [web EXCEPT !.pc = "running", !.budget = m, !.max_retries = m,
                          !.attempts = <<>>, !.result = None, !.calls = @ + 1]
    /\ UNCHANGED <<bots, manager, is_initialized, components, is_running, routed,
                   pc, upd, cur_bot, response, events, call_env, bot_stats,
                   init_runs, shutdown_runs, last_call, stats_before,
                   stats_calls, ai, main, manager_call,
                   voice_calls, temp_dir>>

\* lines 99-107: without Playwright, or when the browser does not start, the
\* call returns None before any attempt is made
suno_no_browser ==
    /\ web.pc = "running"
    /\ ~web.playwright_available \/ ~web.browser
    /\ web' = [web EXCEPT !.pc = "returned", !.result = None]
    /\ UNCHANGED <<bots, manager, is_initialized, components, is_running, routed,
                   pc, upd, cur_bot, response, events, call_env, bot_stats,
                   init_runs, shutdown_runs, last_call, stats_before,
                   stats_calls, ai, main, manager_call,
                   voice_calls, temp_dir>>

\* lines 99-156, one level: the browser is started when there is none, then
\* the try block runs once. It ends with the URL, with None (no URL found,
\* or the login failed), or with an exception; the page of an attempt that
\* raised is not closed
suno_attempt(outcome, page_opened) ==
    /\ web.pc = "running"
    /\ web.playwright_available
    /\ LET tried == [web EXCEPT !.browser = TRUE,
                                !.attempts = Append(@, outcome)]
       IN  web' =
             CASE outcome = "url" ->
                    [tried EXCEPT !.pc = "returned", !.result = "track url"]
               [] outcome \in {"no_url", "login_failed"} ->
                    [tried EXCEPT !.pc = "returned", !.result = None]
               [] OTHER ->
                    IF AfterRaise(web.max_retries).retry
                    THEN [tried EXCEPT
                            !.max_retries = AfterRaise(web.max_retries).max_retries,
                            !.pages = @ + (IF page_opened THEN 1 ELSE 0)]
                    ELSE [tried EXCEPT
                            !.pc = "returned", !.result = None,
                            !.pages = @ + (IF page_opened THEN 1 ELSE 0)]
    /\ UNCHANGED <<bots, manager, is_initialized, components, is_running, routed,
                   pc, upd, cur_bot, response, events, call_env, bot_stats,
                   init_runs, shutdown_runs, last_call, stats_before,
                   stats_calls, ai, main, manager_call,
                   voice_calls, temp_dir>>

AttemptOutcomes == {"url", "no_url", "login_failed", "raised"}

NextSuno ==
    \/ \E m \in 0..DEFAULT_MAX_RETRIES : create_suno_track(m)
    \/ suno_no_browser
    \/ \E outcome \in AttemptOutcomes, page_opened \in BOOLEAN :
          suno_attempt(outcome, page_opened)

\* a WebAutomation object with or without Playwright installed
InitSuno ==
    /\ InitManager
    /\ stats_calls = [c \in Callers |-> NoStatsCall]
    /\ web \in {NewWebAutomation(available) : available \in BOOLEAN}
    /\ ai = NewAIService(TRUE, FALSE, DistinctHash)
    /\ main = MainStarted
    /\ manager_call = NoManagerCall

\* every wait of an attempt carries a Playwright timeout, so a level that
\* has started always ends: with a result or with an exception
SpecSuno ==
    /\ InitSuno
    /\ [][NextSuno]_vars
    /\ WF_vars(suno_no_browser)
    /\ WF_vars(\E outcome \in AttemptOutcomes, page_opened \in BOOLEAN :
                  suno_attempt(outcome, page_opened))

MusicBranchRan ==
    /\ upd.kind = "text" /\ WantsMusic(upd.text)
    /\ cur_bot # None /\ ClassOf[cur_bot] = "PoetryBot"
    /\ HandlerCalls # {}
    /\ components[cur_bot]
    /\ call_env.notify = "ok"

\* the browser automation gave no URL, and the API has no key or failed
TrackCreationFailed ==
    call_env.track = "none" /\ (~call_env.api_key \/ call_env.api = "error")

\* C26 as the specification states it: when track creation fails,
\* create_track returns None and PoetryBot.process_text replies with the
\* poem and the 'could not create the track' notice.
C26_AsStated ==
    MusicBranchRan /\ TrackCreationFailed =>
        /\ create_track(call_env) = None
        /\ response = Str(POEM_WITHOUT_TRACK, generate_poem(call_env))

\* the browser automation gave no URL and the API request failed: the reply
\* that was delivered is the poem with a track link, the link of the examples
C26_Witness ==
    /\ MusicBranchRan /\ TrackCreationFailed
    /\ call_env.api_key /\ call_env.api = "error"
    /\ create_track(call_env) = MOCK_TRACK_URL
    /\ response = Str(POEM_WITH_TRACK, "poem")
    /\ pc = "done"
    /\ events[Len(events)] = Ev("reply_text", None, POEM_WITH_TRACK, TRUE)


(***************************************************************************)
(* The dispatcher with its scheduling: the processing of an update that has *)
(* begun goes on whenever its next step can be taken.                       *)
(***************************************************************************)
SpecLive ==
    /\ Init
    /\ [][Next]_vars
    /\ WF_vars(ProcessText)
    /\ WF_vars(ReplyText)
    /\ WF_vars(ProcessVoice)
    /\ WF_vars(DeliverVoice)
    /\ WF_vars(error_handler)

\* the handler of the update is being called
HandlerUnderWay == pc \in {"process_text", "process_voice"}

\* C27 as the specification states it: every external call is bounded by a
\* timeout, so the processing of every dispatched message ends, with a
\* reply or an error reply, even when a provider never responds.
C27_AsStated == HandlerUnderWay ~> (pc = "done")

\* the music API accepted the request and never answered: poetry_bot sent
\* its notice, and the handler call has not returned and never will
C27_Witness ==
    /\ pc = "blocked"
    /\ cur_bot = "poetry"
    /\ call_env.api = "never"
    /\ events = <<Ev("send_message", "poetry", POETRY_NOTICE, TRUE)>>
    /\ ~ENABLED Next


(***************************************************************************)
(* One update at a time: the Application is built without concurrent        *)
(* updates and the handlers are registered as blocking, and the calls to    *)
(* the AI provider, the speech recognizer and the music API are synchronous *)
(* calls made on the event loop.                                            *)
(***************************************************************************)
\* the dispatcher can begin the processing of another inbound message
CanStartAnother ==
    \/ ENABLED HandleVoice
    \/ \E text \in DispatchTexts : ENABLED HandleText(text)

\* C28 as the specification states it: while the handler of one message
\* waits on a slow external call, the dispatcher can still start and
\* complete the processing of other inbound messages.
C28_AsStated == is_running /\ HandlerUnderWay => CanStartAnother

\* the manager is running and main_bot.process_voice is under way for a
\* voice message whose notice was sent: no other message can be taken up
\* until that call has returned
C28_Witness ==
    /\ is_running
    /\ pc = "process_voice"
    /\ cur_bot = "main"
    /\ events = <<Ev("reply_text", None, VOICE_NOTICE, TRUE)>>
    /\ ~CanStartAnother
    /\ ENABLED ProcessVoice


(***************************************************************************)
(* AIService.get_text_response and get_creative_response with the response  *)
(* cache. A response is written as the provider that made it and the text   *)
(* it was made for.                                                         *)
(***************************************************************************)
\* f"text_{hash(text)}" and f"creative_{hash(prompt)}"
cache_key(kind, text, str_hash) == [kind |-> kind, hash |-> str_hash[text]]

\* `cache_key in self.response_cache`
InCache(cache, key) == \E e \in cache : e.key = key

\* self.response_cache[cache_key]
Cached(cache, key) == (CHOOSE e \in cache : e.key = key).response

\* lines 124-133 and 161-170: the provider that answers. The OpenAI helpers
\* catch every exception and return their apology; the local helper raises
\* in its first test, isinstance(model, pipeline), because pipeline is a
\* function (or, without transformers, an unbound name), and returns its
\* apology; the mock answers quote the text
Generate(service, text, provider_ok) ==
    IF service.openai_api_key
    THEN IF provider_ok THEN [by |-> "openai", for |-> text]
         ELSE [by |-> "openai apology", for |-> text]
    ELSE IF service.text_model THEN [by |-> "local model apology", for |-> text]
    ELSE [by |-> "mock", for |-> text]

\* await ai_service.get_text_response(user_id, text) for kind = "text",
\* await ai_service.get_creative_response(prompt) for kind = "creative"
ai_request(kind, text, provider_ok) ==
    /\ main.pc = "manager"
    /\ ai.requests < MaxAIRequests
    /\ LET key == cache_key(kind, text, ai.hash)
           answered == [ai EXCEPT !.request = [kind |-> kind, text |-> text],
                                  !.requests = @ + 1]
       IN  ai' = IF InCache(ai.response_cache, key)
                 THEN [answered EXCEPT !.response = Cached(ai.response_cache, key),
                                       !.hit = TRUE]
                 ELSE [answered EXCEPT
                         !.response = Generate(ai, text, provider_ok),
                         !.hit = FALSE,
                         !.response_cache =
                             @ \cup {[key |-> key,
                                      response |-> Generate(ai, text, provider_ok)]}]
    /\ UNCHANGED <<bots, manager, is_initialized, components, is_running, routed,
                   pc, upd, cur_bot, response, events, call_env, bot_stats,
                   init_runs, shutdown_runs, last_call, stats_before,
                   stats_calls, web, main, manager_call,
                   voice_calls, temp_dir>>

NextAI ==
    \E kind \in {"text", "creative"}, text \in AITexts, provider_ok \in BOOLEAN :
        ai_request(kind, text, provider_ok)

\* the str hashes an interpreter can have: one per hash seed
StrHashes == [AITexts -> 0..(2^HashBits - 1)]

\* an AIService object in any environment: with or without the OpenAI key,
\* with or without a local model that loaded, under any hash seed
InitAI ==
    /\ InitManager
    /\ stats_calls = [c \in Callers |-> NoStatsCall]
    /\ web = NewWebAutomation(TRUE)
    /\ ai \in {NewAIService(key, model, str_hash) :
                 key \in BOOLEAN, model \in BOOLEAN, str_hash \in StrHashes}
    /\ main = MainStarted
    /\ manager_call = NoManagerCall

SpecAI == InitAI /\ [][NextAI]_vars

\* C29 as the specification states it: a cache hit returns only a response
\* that was generated for exactly the same request text; two different
\* request texts never share a cached reply.
C29_AsStated ==
    ai.hit => ai.response.for = ai.request.text

\* the answer OpenAI gave to 'privet' was returned from the cache for the
\* request 'stih pro more', whose hash is the same
C29_Witness ==
    /\ ai.hit
    /\ ai.request = [kind |-> "text", text |-> "stih pro more"]
    /\ ai.response = [by |-> "openai", for |-> "privet"]
    /\ ai.hash["privet"] = ai.hash["stih pro more"]
    /\ ai.hash["privet"] # ai.hash["pesnya pro dozhd"]


(***************************************************************************)
(* main.py from the moment the module is loaded.                            *)
(***************************************************************************)
\* lines 22-39: load keys.env, read TELEGRAM_BOT_TOKEN and exit(1) without
\* it; then the imports of the components, exit(1) when one fails
main_load_env(imports_ok) ==
    /\ main.pc = "load_env"
    /\ main' = IF ~main.TELEGRAM_TOKEN
               THEN [main EXCEPT !.pc = "exited", !.cause = "token"]
               ELSE IF ~imports_ok
               THEN [main EXCEPT !.pc = "exited", !.cause = "imports"]
               ELSE [main EXCEPT !.pc = "imported"]
    /\ UNCHANGED <<bots, manager, is_initialized, components, is_running, routed,
                   pc, upd, cur_bot, response, events, call_env, bot_stats,
                   init_runs, shutdown_runs, last_call, stats_before,
                   stats_calls, web, ai, manager_call,
                   voice_calls, temp_dir>>

\* lines 42-60: setup_database, exit(1) when it fails, then
\* BotManager(TELEGRAM_TOKEN)
main_create_manager(db_ok) ==
    /\ main.pc = "imported"
    /\ main' = IF db_ok THEN [main EXCEPT !.pc = "manager"]
               ELSE [main EXCEPT !.pc = "exited", !.cause = "database"]
    /\ UNCHANGED <<bots, manager, is_initialized, components, is_running, routed,
                   pc, upd, cur_bot, response, events, call_env, bot_stats,
                   init_runs, shutdown_runs, last_call, stats_before,
                   stats_calls, web, ai, manager_call,
                   voice_calls, temp_dir>>

\* lines 62-81: main_bot and poetry_bot are registered in this order, the
\* manager is started, and stopped when polling has ended
NextMain ==
    \/ \E imports_ok \in BOOLEAN : main_load_env(imports_ok)
    \/ \E db_ok \in BOOLEAN : main_create_manager(db_ok)
    \/ main.pc = "manager" /\ bots = <<>> /\ register_bot("main")
    \/ main.pc = "manager" /\ bots = <<"main">> /\ register_bot("poetry")
    \/ main.pc = "manager" /\ bots = <<"main", "poetry">>
         /\ init_runs["main"] = 0 /\ start
    \/ main.pc = "manager" /\ is_running /\ stop
    \/ \E kind \in {"text", "creative"}, text \in AITexts, provider_ok \in BOOLEAN :
          ai_request(kind, text, provider_ok)

\* the module is about to be loaded, with or without the token, the OpenAI
\* key and a local model in its environment
InitMain ==
    /\ InitManager
    /\ stats_calls = [c \in Callers |-> NoStatsCall]
    /\ web = NewWebAutomation(TRUE)
    /\ ai \in {NewAIService(key, model, DistinctHash) :
                 key \in BOOLEAN, model \in BOOLEAN}
    /\ main \in {[TELEGRAM_TOKEN |-> token, pc |-> "load_env", cause |-> None] :
                   token \in BOOLEAN}
    /\ manager_call = NoManagerCall

SpecMain == InitMain /\ [][NextMain]_vars

\* no BotManager was created, no handler registered, no message processed
NothingStarted ==
    /\ main.pc \in {"load_env", "exited"}
    /\ bots = <<>> /\ \A b \in BotIds : ~manager[b] /\ ~is_initialized[b]
    /\ ~is_running /\ pc = "idle" /\ events = <<>>
    /\ ai.requests = 0

\* C30 as the specification states it: without the transport token startup
\* stops before a BotManager is created, a handler registered or a message
\* processed; without the optional AI key AIService still answers requests
\* through a local model or the mock response instead of failing.
C30_AsStated ==
    /\ ~main.TELEGRAM_TOKEN => NothingStarted
    /\ (~ai.openai_api_key /\ ai.requests > 0) =>
          ai.response.by \in {"local model", "mock"}

\* the first half alone, which the code keeps
C30_TokenHalf == ~main.TELEGRAM_TOKEN => NothingStarted

\* no OpenAI key, a local model that loaded: the manager runs, and the
\* request 'privet' was answered with the apology of the local model helper
C30_Witness ==
    /\ main.TELEGRAM_TOKEN /\ main.pc = "manager" /\ is_running
    /\ ~ai.openai_api_key /\ ai.text_model
    /\ ai.request = [kind |-> "text", text |-> "privet"]
    /\ ~ai.hit
    /\ ai.response = [by |-> "local model apology", for |-> "privet"]


(***************************************************************************)
(* What ends the process.                                                   *)
(***************************************************************************)
\* C31 as the specification states it: the missing transport credential is
\* the only condition that terminates the process; a failure of the
\* database initialization leaves the process running.
C31_AsStated ==
    main.pc = "exited" => main.cause = "token"

\* the token was there and the components were imported; init_db raised,
\* and setup_database ended the process before a BotManager was created
C31_Witness ==
    /\ main.TELEGRAM_TOKEN
    /\ main.pc = "exited" /\ main.cause = "database"
    /\ bots = <<>> /\ ~is_running /\ manager_call = NoManagerCall

(***************************************************************************)
(* MainBot.process_voice step by step, and the files of self.temp_dir.      *)
(* Every caller handles one voice message; the message carries the id of    *)
(* its sender and the file_unique_id of its voice file, which Telegram      *)
(* keeps the same when the same file is sent or forwarded again.            *)
(***************************************************************************)
VoiceUsers == {"u1", "u2"}

FileIds == {"f1", "f2"}

\* files another program left in the directory under tempfile.gettempdir()
ForeignFiles == {"x", "y"}

\* self.temp_dir / f"voice_{user_id}_{voice_file.file_unique_id}.ogg"
voice_path(user_id, file_unique_id) == <<"voice", user_id, file_unique_id, "ogg">>

\* self.temp_dir / f"response_{user_id}_{voice_file.file_unique_id}.ogg"
response_voice_path(user_id, file_unique_id) ==
    <<"response", user_id, file_unique_id, "ogg">>

\* VoiceHandler.speech_to_text: self.temp_dir / f"{voice_path.stem}.wav"
wav_path(path) == <<path[1], path[2], path[3], "wav">>

\* `name` is in the directory listing
InDir(files, name) == \E i \in 1..Len(files) : files[i].name = name

\* a file is written: a new name joins the listing, a name that is there
\* stays where it is
WriteFile(files, name, deletable) ==
    IF InDir(files, name) THEN files
    ELSE Append(files, [name |-> name, deletable |-> deletable])

\* everything but the calls of process_voice and the directories
voice_frame == <<bots, manager, is_initialized, components, is_running, routed,
                 pc, upd, cur_bot, response, events, call_env, bot_stats,
                 init_runs, shutdown_runs, last_call, stats_before,
                 stats_calls, web, ai, main, manager_call>>

\* process_voice up to `await voice_file.download_to_drive(voice_path)`: the
\* download writes voice_path, or raises and the except clause answers
process_voice_download(c, user_id, file_unique_id, ok, deletable) ==
    /\ pc = "idle"
    /\ voice_calls[c].pc = "idle"
    /\ voice_calls' = [voice_calls EXCEPT ![c] =
           [pc |-> IF ok THEN "downloaded" ELSE "returned",
            user_id |-> user_id, file_unique_id |-> file_unique_id,
            steps |-> <<"download">>, text |-> None, response_text |-> None,
            result |-> IF ok THEN NoneValue ELSE Str(MAIN_VOICE_APOLOGY, "")]]
    /\ temp_dir' = IF ok
                   THEN [temp_dir EXCEPT !["main"] =
                            WriteFile(@, voice_path(user_id, file_unique_id), deletable)]
                   ELSE temp_dir
    /\ UNCHANGED voice_frame

\* a handler bug: process_voice without `if not text: return ...`
process_voice_transcribe_unchecked(c, stt) ==
    /\ pc = "idle"
    /\ voice_calls[c].pc = "downloaded"
    /\ voice_calls' = [voice_calls EXCEPT ![c] =
           IF ~components["main"]
           THEN [@ EXCEPT !.pc = "returned", !.result = Str(MAIN_VOICE_APOLOGY, "")]
           ELSE [@ EXCEPT !.pc = "transcribed",
                          !.text = IF stt = "empty" THEN "" ELSE "transcript",
                          !.steps = Append(@, "transcription")]]
    /\ UNCHANGED <<temp_dir, voice_frame>>

\* `text = await self.voice_handler.speech_to_text(voice_path)` and
\* `if not text: return ...`; without the collaborators voice_handler is
\* None, the call is not made and the except clause answers
process_voice_transcribe(c, stt) ==
    /\ pc = "idle"
    /\ voice_calls[c].pc = "downloaded"
    /\ voice_calls' = [voice_calls EXCEPT ![c] =
           IF ~components["main"]
           THEN [@ EXCEPT !.pc = "returned", !.result = Str(MAIN_VOICE_APOLOGY, "")]
           ELSE IF stt = "empty"
           THEN [@ EXCEPT !.pc = "returned", !.text = "",
                          !.steps = Append(@, "transcription"),
                          !.result = Str(VOICE_NOT_RECOGNIZED, "")]
           ELSE [@ EXCEPT !.pc = "transcribed", !.text = "transcript",
                          !.steps = Append(@, "transcription")]]
    /\ UNCHANGED <<temp_dir, voice_frame>>

\* `response_text = await self.ai_service.get_text_response(user_id, text)`
process_voice_reply(c, answer) ==
    /\ pc = "idle"
    /\ voice_calls[c].pc = "transcribed"
    /\ voice_calls' = [voice_calls EXCEPT ![c] =
           [@ EXCEPT !.pc = "answered",
                     !.steps = Append(@, "ai reply"),
                     !.response_text = get_text_response([ai |-> answer])]]
    /\ UNCHANGED <<temp_dir, voice_frame>>

\* `success = await self.tts_generator.text_to_speech(response_text,
\* response_voice_path)` and the return of the dict or of the text
process_voice_synthesize(c, success, deletable) ==
    /\ pc = "idle"
    /\ voice_calls[c].pc = "answered"
    /\ voice_calls' = [voice_calls EXCEPT ![c] =
           [@ EXCEPT !.pc = "returned",
                     !.steps = Append(@, "synthesis"),
                     !.result = IF success
                                THEN Dict(VOICE_PATH, voice_calls[c].response_text)
                                ELSE Str(VOICE_FALLBACK, voice_calls[c].response_text)]]
    /\ temp_dir' = IF success
                   THEN [temp_dir EXCEPT !["main"] =
                            WriteFile(@, response_voice_path(voice_calls[c].user_id,
                                                             voice_calls[c].file_unique_id),
                                      deletable)]
                   ELSE temp_dir
    /\ UNCHANGED voice_frame

\* a file comes to be in the directory of PoetryBot, whose own code writes
\* nothing there
file_appears(b, name, deletable) ==
    /\ pc = "idle"
    /\ ClassOf[b] = "PoetryBot"
    /\ ~InDir(temp_dir[b], name)
    /\ temp_dir' = [temp_dir EXCEPT ![b] = WriteFile(@, name, deletable)]
    /\ UNCHANGED <<voice_calls, voice_frame>>

\* MainBot.process_voice called for two messages at once, every file
\* deletable
NextVoice ==
    \/ \E c \in Callers, u \in VoiceUsers, f \in FileIds, ok \in BOOLEAN :
          process_voice_download(c, u, f, ok, TRUE)
    \/ \E c \in Callers, stt \in {"text", "empty"} : process_voice_transcribe(c, stt)
    \/ \E c \in Callers, a \in {"answer", "error"} : process_voice_reply(c, a)
    \/ \E c \in Callers, ok \in BOOLEAN : process_voice_synthesize(c, ok, TRUE)
    \/ initialize("main")

SpecVoice == Init /\ [][NextVoice]_vars

\* the two handlers of main.py with their directories: one voice message,
\* files that can and files that cannot be deleted, and every order of
\* initialize() and shutdown()
NextCleanup ==
    \/ \E ok \in BOOLEAN, d \in BOOLEAN : process_voice_download(1, "u1", "f1", ok, d)
    \/ \E stt \in {"text", "empty"} : process_voice_transcribe(1, stt)
    \/ \E a \in {"answer", "error"} : process_voice_reply(1, a)
    \/ \E ok \in BOOLEAN, d \in BOOLEAN : process_voice_synthesize(1, ok, d)
    \/ \E n \in ForeignFiles, d \in BOOLEAN : file_appears("poetry", n, d)
    \/ \E b \in {"main", "poetry"} : initialize(b)
    \/ \E b \in {"main", "poetry"} : shutdown(b)

SpecCleanup == Init /\ [][NextCleanup]_vars

(***************************************************************************)
(* C32. A shutdown() that finds MainBot or PoetryBot initialized runs       *)
(* _shutdown_bot to its end: of the files that were in self.temp_dir,       *)
(* exactly those whose unlink() fails are left, wherever they stand in the  *)
(* listing, so every file was tried and a failure did not end the loop;     *)
(* the call returns (it is recorded as having run, not as having raised)    *)
(* and the bot is not initialized afterwards.                               *)
(***************************************************************************)
C32_BestEffortCleanup ==
    [][\A b \in {"main", "poetry"} :
          (shutdown(b) /\ is_initialized[b]) =>
             /\ \A i \in 1..Len(temp_dir[b]) :
                   InDir(temp_dir'[b], temp_dir[b][i].name) <=> ~temp_dir[b][i].deletable
             /\ \A i \in 1..Len(temp_dir'[b]) : InDir(temp_dir[b], temp_dir'[b][i].name)
             /\ ~is_initialized'[b]
             /\ last_call' = [op |-> "shutdown", bot |-> b, warned |-> FALSE,
                              ran |-> TRUE]]_vars

\* MainBot has been shut down; the downloaded file, first in the listing,
\* could not be deleted and is still there, and the synthesized response
\* that was written after it is gone.
C32_Witness ==
    /\ last_call = [op |-> "shutdown", bot |-> "main", warned |-> FALSE, ran |-> TRUE]
    /\ ~is_initialized["main"]
    /\ voice_calls[1].result.type = "dict"
    /\ temp_dir["main"] = <<[name |-> voice_path("u1", "f1"), deletable |-> FALSE]>>

\* a call of process_voice that has begun and has not returned
InFlight(c) == voice_calls[c].pc \in {"downloaded", "transcribed", "answered"}

\* the files a call of process_voice and its speech_to_text write
PathsOf(c) ==
    {voice_path(voice_calls[c].user_id, voice_calls[c].file_unique_id),
     wav_path(voice_path(voice_calls[c].user_id, voice_calls[c].file_unique_id)),
     response_voice_path(voice_calls[c].user_id, voice_calls[c].file_unique_id)}

(***************************************************************************)
(* C33. As stated: any two distinct voice messages that are being           *)
(* processed at the same time have different download paths and different   *)
(* response paths (and different wav paths).  The names are built from the  *)
(* sender's id and the file_unique_id of the voice file, not from the       *)
(* message, so two messages of one sender that carry the same file share    *)
(* all of them.                                                             *)
(***************************************************************************)
C33_AsStated ==
    \A c1 \in Callers, c2 \in Callers :
        (c1 # c2 /\ InFlight(c1) /\ InFlight(c2)) => PathsOf(c1) \cap PathsOf(c2) = {}

\* Two calls for two messages with the same sender and the same file are
\* both about to synthesize into the same response path, and the directory
\* holds one downloaded file for the two of them.
C33_Witness ==
    /\ voice_calls[1].pc = "answered" /\ voice_calls[2].pc = "answered"
    /\ voice_calls[1].user_id = voice_calls[2].user_id
    /\ voice_calls[1].file_unique_id = voice_calls[2].file_unique_id
    /\ Len(temp_dir["main"]) = 1
    /\ temp_dir["main"][1].name = voice_path(voice_calls[1].user_id,
                                             voice_calls[1].file_unique_id)

\* what does hold: calls that differ in the sender or in the file write
\* different files
C33_DistinctIds ==
    \A c1 \in Callers, c2 \in Callers :
        (/\ InFlight(c1) /\ InFlight(c2)
         /\ <<voice_calls[c1].user_id, voice_calls[c1].file_unique_id>>
              # <<voice_calls[c2].user_id, voice_calls[c2].file_unique_id>>)
        => PathsOf(c1) \cap PathsOf(c2) = {}

\* the sends of the dispatcher to the user of the update that failed
FailedDeliveries ==
    {i \in 1..Len(events) : events[i].op \in {"reply_text", "reply_voice"} /\ ~events[i].ok}

(***************************************************************************)
(* C34. As stated: after a reply to the user has failed, the dispatcher     *)
(* sends nothing more to that user for that update.  The exception of the   *)
(* failed reply_text or reply_voice leaves the callback, the application    *)
(* gives it to _error_handler, and _error_handler calls                     *)
(* update.message.reply_text once more.                                     *)
(***************************************************************************)
C34_AsStated ==
    \A i \in FailedDeliveries :
        \A j \in (i + 1)..Len(events) :
            events[j].op \notin {"reply_text", "reply_voice", "error_reply"}

\* MainBot answered a text message, the reply could not be delivered, and
\* the error handler then sent the generic apology to the same chat.
C34_Witness ==
    /\ pc = "done"
    /\ upd.kind = "text"
    /\ events = <<Ev("process_text", "main", "", TRUE),
                  Ev("reply_text", None, "ai answer", FALSE),
                  Ev("error_reply", None, GENERIC_APOLOGY, TRUE)>>

\* download, transcription, AI reply, synthesis
VoicePipeline == <<"download", "transcription", "ai reply", "synthesis">>

\* the sequence s is the beginning of the sequence t
IsPrefix(s, t) == Len(s) <= Len(t) /\ \A i \in 1..Len(s) : s[i] = t[i]

(***************************************************************************)
(* C35. The calls that one call of MainBot.process_voice has made are       *)
(* always a beginning of download, transcription, AI reply, synthesis, and  *)
(* a call that returned the voice file or the fallback text has made all    *)
(* four.  When the transcription came back empty the call has returned      *)
(* after these two steps with the fixed 'could not recognize' text: the AI  *)
(* service and the synthesizer were not called and no answer was made.      *)
(***************************************************************************)
C35_PipelineOrder ==
    \A c \in Callers :
        /\ IsPrefix(voice_calls[c].steps, VoicePipeline)
        /\ (voice_calls[c].pc = "returned" /\ voice_calls[c].result.type = "dict")
              => voice_calls[c].steps = VoicePipeline
        /\ voice_calls[c].result.body = VOICE_FALLBACK
              => voice_calls[c].steps = VoicePipeline
        /\ voice_calls[c].text = ""
              => /\ voice_calls[c].pc = "returned"
                 /\ voice_calls[c].steps = <<"download", "transcription">>
                 /\ voice_calls[c].response_text = None
                 /\ voice_calls[c].result = Str(VOICE_NOT_RECOGNIZED, "")

\* One call ended after an empty transcription with the fixed text, the
\* other went through all four steps and returned the voice file.
C35_Witness ==
    /\ voice_calls[1].pc = "returned" /\ voice_calls[1].text = ""
    /\ voice_calls[1].result = Str(VOICE_NOT_RECOGNIZED, "")
    /\ voice_calls[2].pc = "returned" /\ voice_calls[2].steps = VoicePipeline
    /\ voice_calls[2].result = Dict(VOICE_PATH, "ai answer")

(***************************************************************************)
(* The manager and the lifecycle hooks when a hook raises.                  *)
(* _initialize_bot builds the collaborators and may raise in any class;     *)
(* the _shutdown_bot of MainBot and of PoetryBot does not raise, the hook   *)
(* of another BaseBot subclass may.  BaseBot.initialize and                 *)
(* BaseBot.shutdown, BotManager.start and BotManager.stop have no try       *)
(* block, so the exception leaves them at the line of the call.             *)
(***************************************************************************)
ManagerBots == {"main", "main2", "aux"}

\* the bots of the registry before position k, in the order of the loop
Before(reg, k) == {reg[i] : i \in 1..(k - 1)}

\* a lifecycle bug: is_initialized is set before _initialize_bot is called,
\* so a raising hook leaves the bot marked as initialized
initialize_raises_flag_first(b) ==
    /\ pc = "idle"
    /\ ~is_initialized[b]
    /\ init_runs[b] < MaxInitRuns
    /\ is_initialized' = [is_initialized EXCEPT ![b] = TRUE]
    /\ init_runs' = [init_runs EXCEPT ![b] = @ + 1]
    /\ last_call' = [op |-> "initialize raised", bot |-> b, warned |-> FALSE,
                     ran |-> TRUE]
    /\ UNCHANGED <<bots, manager, components, is_running, routed,
                   pc, upd, cur_bot, response, events, call_env, bot_stats,
                   shutdown_runs, stats_before, service_vars, temp_dir>>

\* BaseBot.initialize: _initialize_bot raises, the line that sets
\* is_initialized is not reached
initialize_raises(b) ==
    /\ pc = "idle"
    /\ ~is_initialized[b]
    /\ init_runs[b] < MaxInitRuns
    /\ init_runs' = [init_runs EXCEPT ![b] = @ + 1]
    /\ last_call' = [op |-> "initialize raised", bot |-> b, warned |-> FALSE,
                     ran |-> TRUE]
    /\ UNCHANGED <<bots, manager, is_initialized, components, is_running, routed,
                   pc, upd, cur_bot, response, events, call_env, bot_stats,
                   shutdown_runs, stats_before, service_vars, temp_dir>>

\* BaseBot.shutdown: _shutdown_bot raises, the line that clears
\* is_initialized is not reached
shutdown_raises(b) ==
    /\ pc = "idle"
    /\ is_initialized[b]
    /\ ~HasTempDir(b)
    /\ shutdown_runs[b] < MaxInitRuns
    /\ shutdown_runs' = [shutdown_runs EXCEPT ![b] = @ + 1]
    /\ last_call' = [op |-> "shutdown raised", bot |-> b, warned |-> FALSE,
                     ran |-> TRUE]
    /\ UNCHANGED <<bots, manager, is_initialized, components, is_running, routed,
                   pc, upd, cur_bot, response, events, call_env, bot_stats,
                   init_runs, stats_before, service_vars, temp_dir>>

\* a manager bug: start() without the is_running test
start_unguarded ==
    /\ is_running
    /\ pc = "idle"
    /\ InitializeAll(Registered(bots), LastOf(bots))
    /\ manager_call' = [op |-> "start", warned |-> FALSE, raised |-> FALSE]
    /\ UNCHANGED <<bots, manager, is_running, routed, pc, upd, cur_bot, response,
                   events, call_env, bot_stats, stats_before, stats_calls, web,
                   ai, main, voice_calls, temp_dir>>

\* BotManager.start while is_running: the warning and the return
start_while_running ==
    /\ is_running
    /\ pc = "idle"
    /\ manager_call' = [op |-> "start", warned |-> TRUE, raised |-> FALSE]
    /\ UNCHANGED <<bots, manager, is_initialized, components, is_running, routed,
                   pc, upd, cur_bot, response, events, call_env, bot_stats,
                   init_runs, shutdown_runs, last_call, stats_before,
                   stats_calls, web, ai, main, voice_calls, temp_dir>>

\* BotManager.stop while not is_running: the warning and the return
stop_while_not_running ==
    /\ ~is_running
    /\ pc = "idle"
    /\ manager_call' = [op |-> "stop", warned |-> TRUE, raised |-> FALSE]
    /\ UNCHANGED <<bots, manager, is_initialized, components, is_running, routed,
                   pc, upd, cur_bot, response, events, call_env, bot_stats,
                   init_runs, shutdown_runs, last_call, stats_before,
                   stats_calls, web, ai, main, voice_calls, temp_dir>>

\* BotManager.start when the initialize() of the k-th bot raises: the bots
\* before it have been initialized, the line that sets is_running is not
\* reached and run_polling is not called
start_raises(k) ==
    /\ ~is_running
    /\ pc = "idle"
    /\ k \in 1..Len(bots)
    /\ ~is_initialized[bots[k]]
    /\ \A b \in Before(bots, k) \cup {bots[k]} :
          ~is_initialized[b] => init_runs[b] < MaxInitRuns
    /\ is_initialized' = [b \in BotIds |-> is_initialized[b] \/ b \in Before(bots, k)]
    /\ components' = [b \in BotIds |->
                         components[b] \/ (b \in Before(bots, k) /\ ~is_initialized[b])]
    /\ init_runs' = [b \in BotIds |->
                        IF b \in Before(bots, k) \cup {bots[k]} /\ ~is_initialized[b]
                        THEN init_runs[b] + 1 ELSE init_runs[b]]
    /\ last_call' = [op |-> "initialize raised", bot |-> bots[k], warned |-> FALSE,
                     ran |-> TRUE]
    /\ manager_call' = [op |-> "start", warned |-> FALSE, raised |-> TRUE]
    /\ UNCHANGED <<bots, manager, is_running, routed, pc, upd, cur_bot, response,
                   events, call_env, bot_stats, shutdown_runs, stats_before,
                   stats_calls, web, ai, main, voice_calls, temp_dir>>

\* BotManager.stop when the shutdown() of the k-th bot raises: the bots
\* before it have been shut down, the line that clears is_running is not
\* reached
stop_raises(k) ==
    /\ is_running
    /\ pc = "idle"
    /\ k \in 1..Len(bots)
    /\ is_initialized[bots[k]]
    /\ ~HasTempDir(bots[k])
    /\ shutdown_runs[bots[k]] < MaxInitRuns
    /\ is_initialized' = [b \in BotIds |-> is_initialized[b] /\ b \notin Before(bots, k)]
    /\ shutdown_runs' = [b \in BotIds |->
                            IF b \in Before(bots, k) \cup {bots[k]} /\ is_initialized[b]
                            THEN shutdown_runs[b] + 1 ELSE shutdown_runs[b]]
    /\ temp_dir' = [b \in BotIds |->
                       IF b \in Before(bots, k) /\ is_initialized[b] /\ HasTempDir(b)
                       THEN unlink_all(temp_dir[b]) ELSE temp_dir[b]]
    /\ last_call' = [op |-> "shutdown raised", bot |-> bots[k], warned |-> FALSE,
                     ran |-> TRUE]
    /\ manager_call' = [op |-> "stop", warned |-> FALSE, raised |-> TRUE]
    /\ UNCHANGED <<bots, manager, is_running, components, init_runs, routed, pc,
                   upd, cur_bot, response, events, call_env, bot_stats,
                   stats_before, stats_calls, web, ai, main, voice_calls>>

\* the manager as main.py and other callers may drive it: registrations,
\* and start() and stop() in every state, with and without a raising hook
NextManager ==
    \/ \E b \in ManagerBots : register_bot(b)
    \/ start
    \/ start_while_running
    \/ \E k \in 1..Cardinality(ManagerBots) : start_raises(k)
    \/ stop
    \/ stop_while_not_running
    \/ \E k \in 1..Cardinality(ManagerBots) : stop_raises(k)

SpecManager == Init /\ [][NextManager]_vars

\* the bots of the runs that look at the hooks: MainBot and one other subclass
HookBots == {"main", "aux"}

\* a direct call of bot.process_text or bot.process_voice: what it returns
HandlerCall(b, kind) ==
    /\ pc = "idle"
    /\ \E env \in EnvsOf(ClassOf[b], kind, FALSE) :
         response' = IF kind = "text"
                     THEN process_text(b, components[b], T_WhatTime, env)
                     ELSE process_voice(b, components, bots, manager, env)
    /\ cur_bot' = b
    /\ UNCHANGED <<bots, manager, is_initialized, components, is_running, routed,
                   pc, upd, events, call_env, bot_stats, init_runs, shutdown_runs,
                   last_call, stats_before, service_vars, temp_dir>>

\* the bot objects by themselves: set_manager through register_bot, direct
\* calls of initialize() and shutdown() with and without a raising hook,
\* and direct calls of the handlers
NextHooks ==
    \/ \E b \in HookBots : register_bot(b)
    \/ \E b \in HookBots : initialize(b)
    \/ \E b \in HookBots : initialize_raises(b)
    \/ \E b \in HookBots : shutdown(b)
    \/ \E b \in HookBots : shutdown_raises(b)
    \/ \E b \in HookBots, kind \in {"text", "voice"} : HandlerCall(b, kind)

SpecHooks == Init /\ [][NextHooks]_vars

(***************************************************************************)
(* C36. A start() that runs to its end has initialized every registered bot *)
(* that was not initialized and sets is_running in the same call;           *)
(* is_running never becomes true in any other way, so a start() that a      *)
(* raising _initialize_bot cut short leaves it false and polling is not     *)
(* begun.  start() while running and stop() while not running change        *)
(* nothing of the bots or of the manager.  A stop() while running that runs *)
(* to its end has shut every registered bot down and clears is_running;     *)
(* one that a raising _shutdown_bot cut short leaves is_running true.       *)
(***************************************************************************)
C36_StartStop ==
    /\ [][start =>
            /\ \A b \in Registered(bots) :
                  /\ is_initialized'[b]
                  /\ init_runs'[b] = IF is_initialized[b] THEN init_runs[b]
                                     ELSE init_runs[b] + 1
            /\ is_running']_vars
    /\ [][(~is_running /\ is_running') =>
            /\ \A b \in Registered(bots') : is_initialized'[b]
            /\ manager_call' = [op |-> "start", warned |-> FALSE, raised |-> FALSE]]_vars
    /\ [][(\E k \in 1..Len(bots) : start_raises(k)) => ~is_running']_vars
    /\ [][(start_while_running \/ stop_while_not_running) =>
            UNCHANGED <<bots, manager, is_running, is_initialized, components,
                        init_runs, shutdown_runs, last_call, temp_dir>>]_vars
    /\ [][stop =>
            /\ \A b \in Registered(bots) :
                  /\ ~is_initialized'[b]
                  /\ shutdown_runs'[b] = IF is_initialized[b] THEN shutdown_runs[b] + 1
                                         ELSE shutdown_runs[b]
            /\ ~is_running']_vars
    /\ [][(is_running /\ ~is_running') =>
            /\ \A b \in Registered(bots') : ~is_initialized'[b]
            /\ manager_call' = [op |-> "stop", warned |-> FALSE, raised |-> FALSE]]_vars
    /\ [][(\E k \in 1..Len(bots) : stop_raises(k)) => is_running']_vars

\* start() was called while the manager was running: aux_bot, registered
\* after the first start(), has still never been initialized.
C36_Witness ==
    /\ manager_call = [op |-> "start", warned |-> TRUE, raised |-> FALSE]
    /\ is_running
    /\ bots = <<"main", "aux">>
    /\ is_initialized["main"] /\ ~is_initialized["aux"]
    /\ init_runs["aux"] = 0

(***************************************************************************)
(* C37. Whenever route_text_message has been called, what it returned is    *)
(* None or one of the bots of the registry it was given, and it is None     *)
(* exactly when that registry is empty.  So when _handle_text got None for  *)
(* a text update, the lookup of main_bot in its else branch finds nothing,  *)
(* no handler is called, and the first thing sent is the 'no bot can        *)
(* process' apology.                                                        *)
(***************************************************************************)
C37_NoneOnlyForEmptyRegistry ==
    routed.called =>
        /\ routed.bot = None \/ routed.bot \in Registered(routed.reg)
        /\ routed.bot = None <=> routed.reg = <<>>
        /\ (upd.kind = "text" /\ routed.bot = None) =>
              /\ routed.reg = bots
              /\ get_bot(bots, "main_bot") = None
              /\ cur_bot = None
              /\ HandlerCalls = {}
              /\ Len(events) >= 1
              /\ events[1].op = "reply_text" /\ events[1].msg = NO_BOT_APOLOGY

\* The registry holds aux_bot alone: a text that addresses nobody went to it
\* by the last rule of the router, not to the 'no target' branch.
C37_Witness ==
    /\ routed.called
    /\ routed.reg = <<"aux">>
    /\ routed.rule = "fallback" /\ routed.bot = "aux"
    /\ upd.kind = "text" /\ cur_bot = "aux"
    /\ pc = "done"

\* the texts the service returns in place of an answer when the provider failed
ProviderApologies == {"openai apology", "local model apology"}

(***************************************************************************)
(* C38. As stated: a response that comes out of response_cache is never an  *)
(* apology made because the provider failed.  _get_openai_response and      *)
(* _get_local_model_response catch the provider's exception themselves and  *)
(* return the apology as an ordinary string, and get_text_response and      *)
(* get_creative_response store whatever they were given.                    *)
(***************************************************************************)
C38_AsStated ==
    ai.hit => ai.response.by \notin ProviderApologies

\* OpenAI failed on the first 'privet'; the second request with the same
\* text was answered from the cache with that apology, and the provider was
\* not asked again.
C38_Witness ==
    /\ ai.openai_api_key
    /\ ai.requests = 2
    /\ ai.hit
    /\ ai.request = [kind |-> "text", text |-> "privet"]
    /\ ai.response = [by |-> "openai apology", for |-> "privet"]
    /\ Cardinality(ai.response_cache) = 1

(***************************************************************************)
(* C39. As stated: when the last call of the manager was a stop() that      *)
(* returned, no bot that was given to this manager is initialized.  stop()  *)
(* returns at once when is_running is false, which it still is after a      *)
(* start() that a raising _initialize_bot cut short, and it walks the       *)
(* registry as it is now, where a replaced bot no longer stands.            *)
(***************************************************************************)
C39_AsStated ==
    (manager_call.op = "stop" /\ ~manager_call.raised) =>
        \A b \in BotIds : manager[b] => ~is_initialized[b]

\* start() initialized main_bot and was cut short by the _initialize_bot of
\* aux_bot; the stop() of the finally clause of main.py only warned, and
\* main_bot is still initialized.
C39_Witness ==
    /\ manager_call = [op |-> "stop", warned |-> TRUE, raised |-> FALSE]
    /\ ~is_running
    /\ bots = <<"main", "aux">>
    /\ last_call = [op |-> "initialize raised", bot |-> "aux", warned |-> FALSE,
                    ran |-> TRUE]
    /\ is_initialized["main"] /\ ~is_initialized["aux"]

\* the other way: main_bot was replaced by a bot of the same name while the
\* manager ran, and the stop() that ran to its end did not reach it
C39_ReplacedStaysInitialized ==
    /\ manager_call = [op |-> "stop", warned |-> FALSE, raised |-> FALSE]
    /\ bots = <<"main2">>
    /\ manager["main"] /\ is_initialized["main"]
    /\ ~is_initialized["main2"]

\* a call of initialize() or shutdown() that ran its hook to the end
CompletedCall(b) ==
    \/ /\ last_call' = [op |-> "initialize", bot |-> b, warned |-> FALSE, ran |-> TRUE]
       /\ ~is_initialized[b] /\ is_initialized'[b]
    \/ /\ last_call' = [op |-> "shutdown", bot |-> b, warned |-> FALSE, ran |-> TRUE]
       /\ is_initialized[b] /\ ~is_initialized'[b]

(***************************************************************************)
(* C40. The is_initialized of a bot changes only in a step that is a call   *)
(* of its initialize() or shutdown() that ran the hook to its end, and      *)
(* only that bot's.  An initialize() whose _initialize_bot raises leaves    *)
(* the bot not initialized, a shutdown() whose _shutdown_bot raises leaves  *)
(* it initialized; register_bot with set_manager, process_text and          *)
(* process_voice leave every bot's is_initialized as it was.                *)
(***************************************************************************)
C40_OnlyCompletedCalls ==
    /\ [][\A b \in BotIds :
            is_initialized'[b] # is_initialized[b] =>
               /\ CompletedCall(b)
               /\ initialize(b) \/ shutdown(b)
               /\ \A o \in BotIds \ {b} : is_initialized'[o] = is_initialized[o]]_vars
    /\ [][\A b \in HookBots :
            /\ initialize_raises(b) => (~is_initialized[b] /\ ~is_initialized'[b])
            /\ shutdown_raises(b) => (is_initialized[b] /\ is_initialized'[b])
            /\ register_bot(b) => UNCHANGED is_initialized
            /\ \A kind \in {"text", "voice"} :
                  HandlerCall(b, kind) => UNCHANGED is_initialized]_vars

\* The _shutdown_bot of aux_bot raised: the bot, initialized and registered
\* before, is initialized still, after a handler call to it and to MainBot.
C40_Witness ==
    /\ last_call = [op |-> "shutdown raised", bot |-> "aux", warned |-> FALSE,
                    ran |-> TRUE]
    /\ is_initialized["aux"] /\ manager["aux"]
    /\ init_runs["aux"] = 2
    /\ cur_bot = "main" /\ ~is_initialized["main"]

====
